---- MODULE Spec2Model ----
(***************************************************************************)
(* Model of the logistics help-desk order event store                      *)
(* (agents/logistics/helpdesk/store/memory.py, InMemoryOrderEventStore).   *)
(*                                                                         *)
(* Python lists are objects with identity: the model keeps an object graph *)
(* (ref, heap) so that "list(x)" (a copy) and "x" (an alias) differ.       *)
(* The asyncio.Condition is modelled by its lock (locked, lockq) and by    *)
(* the position (pc) of every task that is inside a store call.            *)
(***************************************************************************)
EXTENDS Integers, Sequences, FiniteSets, TLC

\* ------------------------------------------------------------------ bounds
MaxLen == 2      \* longest event list stored or passed to set
MaxSeq == 3      \* cap on the creation counter
MaxIndex == 3    \* largest last_index / last_seq a caller passes

Orders == {"O1", "O2"}          \* order_id values
Events == {"ev1", "ev2"}        \* OrderEvent values (never the size of a ledger pair)
Clients == {"A", "B"}           \* list variables of the calling code
None == "None"

Holders == Orders \cup Clients
HolderOrder == <<"O1", "O2", "A", "B">>
RankOf == [h \in Holders |-> CHOOSE i \in 1..Len(HolderOrder) : HolderOrder[i] = h]
Rank(h) == RankOf[h]
Fresh == "new"                  \* raw name of a list object just created
RawNames == Holders \cup {Fresh}

SeqsUpTo(S, n) == UNION {[1..k -> S] : k \in 0..n}

\* ------------------------------------------------------------- variables
VARIABLES
  ref,         \* ref[h]: the list object bound to holder h (None: unbound);
               \* for h in Orders this is the dict entry self._data[h]
  heap,        \* heap[x]: content of the list object named x
  order_seq,   \* self._order_seq
  new_orders,  \* self._new_orders, list of <<seq, order_id>>
  locked,      \* self._cond's lock is held by a suspended task
  lockq,       \* tasks queued on the lock, FIFO
  pc,          \* position of every task
  arg,         \* arguments of the call a task is in
  ret,         \* value returned by the call a task has finished
  ever,        \* history: order ids that have held non-empty content
  seen,        \* history: concatenation of the slices a chained consumer got
  snap,        \* history: snap[c] = order whose unmodified snapshot c holds
  chat,        \* the messages of the group conversation, in arrival order
  read,        \* read[a]: how many messages of chat participant a has handled
  call,        \* the create_order / create_order_streaming call in progress
  responses,   \* the argument of _summarize_a2a_responses
  summary,     \* its result (None: not computed yet)
  codec,       \* the arguments and results of the message codec's functions
  clock        \* the wall clock and the OrderEvent objects constructed so far

vars == <<ref, heap, order_seq, new_orders, locked, lockq, pc, arg, ret,
          ever, seen, snap, chat, read, call, responses, summary, codec, clock>>

\* the variables of the order workflow (conversation and orchestrator)
FlowVars == <<chat, read, call, responses, summary, codec, clock>>

\* ---------------------------------------------------------- object graph
\* Objects are named canonically by the first holder (in HolderOrder) bound
\* to them, so that two states with the same sharing structure are equal.
Canon(r, h) ==
  IF r[h] = None THEN None
  ELSE CHOOSE j \in Holders :
         /\ r[j] = r[h]
         /\ \A k \in Holders : r[k] = r[h] => Rank(j) <= Rank(k)

Normalise(r, hp) ==
  LET nr == [h \in Holders |-> Canon(r, h)]
  IN [ref  |-> nr,
      heap |-> [x \in Holders |->
                  IF \E h \in Holders : nr[h] = x THEN hp[r[x]] ELSE <<>>]]

Raw(m) == [x \in RawNames |-> IF x = Fresh THEN <<>> ELSE m.heap[x]]

\* h = list(s): bind h to a new list object with content s
NewList(m, h, s) ==
  Normalise([m.ref EXCEPT ![h] = Fresh], [Raw(m) EXCEPT ![Fresh] = s])

\* h = g: bind h to the very object g is bound to
SameList(m, h, g) == Normalise([m.ref EXCEPT ![h] = m.ref[g]], Raw(m))

\* del h
Unbind(m, h) == Normalise([m.ref EXCEPT ![h] = None], Raw(m))

\* in-place update of the object h is bound to
Mutate(m, h, s) == [m EXCEPT !.heap[m.ref[h]] = s]

\* self._data.get(h, []) / the content of a caller's list
Content(m, h) == IF m.ref[h] = None THEN <<>> ELSE m.heap[m.ref[h]]

Mem == [ref |-> ref, heap |-> heap]
Stream(o) == Content(Mem, o)
Known(o) == ref[o] # None

\* list(x): a copy of x.  Identity on the content, a new object for the heap.
CopyOf(m, h, g) == NewList(m, h, Content(m, g))

\* ---------------------------------------------------------------- store
Store == [mem |-> Mem, seq |-> order_seq, ledger |-> new_orders]

\* variant: the ledger entry is stamped before the counter is advanced
Allocate_StampBefore(s, order_id) ==
  [s EXCEPT !.seq = s.seq + 1,
            !.ledger = Append(s.ledger, <<s.seq, order_id>>)]

\* lines 57-59 / 79-81: allocate the next creation-sequence number
Allocate(s, order_id) ==
  [s EXCEPT !.seq = s.seq + 1,
            !.ledger = Append(s.ledger, <<s.seq + 1, order_id>>)]

\* variant: a number is allocated for every new key, as append does
set_AllocateWhenNew(s, order_id, c) ==
  LET is_new == s.mem.ref[order_id] = None
      s1     == [s EXCEPT !.mem = CopyOf(s.mem, order_id, c)]
      s2     == IF is_new THEN Allocate(s1, order_id) ELSE s1
  IN [store |-> s2, notify |-> TRUE, result |-> None]

\* set(order_id, events), events being the caller's list c
set(s, order_id, c) ==
  LET is_new   == s.mem.ref[order_id] = None
      existing == Content(s.mem, order_id)
      events   == Content(s.mem, c)
      new_tail == IF /\ existing # <<>>
                     /\ Len(events) >= Len(existing)
                     /\ SubSeq(events, 1, Len(existing)) = existing
                  THEN SubSeq(events, Len(existing) + 1, Len(events))
                  ELSE events
      s1       == [s EXCEPT !.mem = CopyOf(s.mem, order_id, c)]
      s2       == IF is_new /\ events # <<>> THEN Allocate(s1, order_id) ELSE s1
  IN [store |-> s2, notify |-> is_new \/ new_tail # <<>>, result |-> None]

\* variant: the stored list itself is returned
get_NoCopy(s, order_id, c) ==
  LET m1 == IF s.mem.ref[order_id] = None
            THEN NewList(s.mem, c, <<>>)
            ELSE SameList(s.mem, c, order_id)
  IN [store |-> [s EXCEPT !.mem = m1], notify |-> FALSE, result |-> c]

\* get(order_id), the returned list being bound to the caller's c
get(s, order_id, c) ==
  LET m1 == IF s.mem.ref[order_id] = None
            THEN NewList(s.mem, c, <<>>)
            ELSE CopyOf(s.mem, c, order_id)
  IN [store |-> [s EXCEPT !.mem = m1], notify |-> FALSE, result |-> c]

\* variant: a number is allocated whenever the stream held nothing before
append_AllocateWhenEmpty(s, order_id, event) ==
  LET is_new == s.mem.ref[order_id] = None
      m1     == IF is_new THEN NewList(s.mem, order_id, <<>>) ELSE s.mem
      m2     == Mutate(m1, order_id, Append(Content(m1, order_id), event))
      s1     == [s EXCEPT !.mem = m2]
      s2     == IF Content(m1, order_id) = <<>> THEN Allocate(s1, order_id) ELSE s1
  IN [store |-> s2, notify |-> TRUE, result |-> Len(Content(m2, order_id))]

\* append(order_id, event)
append(s, order_id, event) ==
  LET is_new == s.mem.ref[order_id] = None
      m1     == IF is_new THEN NewList(s.mem, order_id, <<>>) ELSE s.mem
      m2     == Mutate(m1, order_id, Append(Content(m1, order_id), event))
      s1     == [s EXCEPT !.mem = m2]
      s2     == IF is_new THEN Allocate(s1, order_id) ELSE s1
  IN [store |-> s2, notify |-> TRUE, result |-> Len(Content(m2, order_id))]

\* variant: the ledger entries of the deleted order are scrubbed
delete_ScrubLedger(s, order_id) ==
  IF s.mem.ref[order_id] # None
  THEN [store |-> [s EXCEPT !.mem = Unbind(s.mem, order_id),
                            !.ledger = SelectSeq(s.ledger,
                                                 LAMBDA pair : pair[2] # order_id)],
        notify |-> TRUE, result |-> None]
  ELSE [store |-> s, notify |-> FALSE, result |-> None]

\* delete(order_id)
delete(s, order_id) ==
  IF s.mem.ref[order_id] # None
  THEN [store |-> [s EXCEPT !.mem = Unbind(s.mem, order_id)],
        notify |-> TRUE, result |-> None]
  ELSE [store |-> s, notify |-> FALSE, result |-> None]

\* latest_order()
latest_order(s) ==
  [store |-> s, notify |-> FALSE,
   result |-> IF s.ledger # <<>> THEN s.ledger[Len(s.ledger)] ELSE None]

\* ------------------------------------------------------- participants
\* the fixed broadcast roster (tools.py, base_cards)
Participants == {"Farm", "Shipper", "Accountant"}

\* no function of the codec has been given arguments; a result is <<>> until
\* the function has returned, then the one-element list of the value
NoCodec ==
  [message |-> "", fallback |-> "None", order_id |-> "", sender |-> "",
   receiver |-> "", to_state |-> "", details |-> "None",
   status |-> <<>>, id |-> <<>>, text |-> <<>>]

\* the module event.py has not been imported, no event has been constructed
NoClock == [now |-> 0, default |-> <<>>, events |-> <<>>]

\* no call of create_order is in progress
NoCall ==
  [pc |-> "idle", mode |-> "none", transport |-> "none", farm |-> "",
   quantity |-> 0, price |-> 0, helpdesk |-> FALSE, recipients |-> 0,
   attempt |-> 0, clients |-> 0, chats |-> 0, outcomes |-> <<>>,
   streamed |-> 0, slept |-> <<>>, out |-> <<>>, events |-> <<>>,
   err |-> "none",
   \* the farm as passed, the session of the client, what was written to the
   \* log, the responses streamed so far
   farm_arg |-> "", session |-> FALSE, logged |-> <<>>, replies |-> <<>>,
   \* the graph node around the call: its position, the contents of the
   \* messages it has yielded, and its locals delivered and order_id
   \* and how its call of the language model for the final message went
   node |-> "idle", shown |-> <<>>, delivered |-> FALSE, order_id |-> "None",
   formatted |-> "none"]


\* ---------------------------------------------------------------- tasks
EventWaiters == {"w1", "w2"}    \* tasks calling wait_for_events
OrderWaiters == {"n1"}          \* task calling wait_for_new_orders
Mutators == {"m"}               \* task calling set/get/append/delete/latest_order
Tasks == EventWaiters \cup OrderWaiters \cup Mutators
Temp == "A"                     \* holder of a list literal / a dropped result

NoArg == [op |-> None, order |-> None, last |-> 0, tmo |-> FALSE,
          chain |-> FALSE, payload |-> <<>>]
NoRet == [list |-> <<>>, n |-> -1]

StoreVars == <<ref, heap, order_seq, new_orders>>

\* variant: the predicate compares with >= instead of >
changed_AtLeast(a) ==
  IF a.op = "wait_for_events"
  THEN Len(Stream(a.order)) >= a.last
  ELSE order_seq >= a.last

\* the predicate "changed" of the two wait calls (lines 108-109, 137-138)
changed(a) ==
  IF a.op = "wait_for_events"
  THEN Len(Stream(a.order)) > a.last
  ELSE order_seq > a.last

\* variant: full[last_index + 1:]
SliceFrom_SkipOne(full, k) ==
  IF k + 1 >= Len(full) THEN <<>> ELSE SubSeq(full, k + 2, Len(full))

\* full[last_index:], a slice (Python clamps the bounds)
SliceFrom(full, k) == IF k >= Len(full) THEN <<>> ELSE SubSeq(full, k + 1, Len(full))

\* lines 120-122 and 149-150: the value returned once changed() holds
WaitResult(a) ==
  IF a.op = "wait_for_events"
  THEN [list |-> SliceFrom(Stream(a.order), a.last), n |-> Len(Stream(a.order))]
  ELSE [list |-> SelectSeq(new_orders, LAMBDA pair : pair[1] > a.last),
        n |-> order_seq]

\* variant: the timeout path resynchronises the caller on the true length
TimeoutResult_TrueLength(a) ==
  [list |-> <<>>,
   n |-> IF a.op = "wait_for_events" THEN Len(Stream(a.order)) ELSE order_seq]

\* lines 118 and 147: the value returned on asyncio.TimeoutError
TimeoutResult(a) == [list |-> <<>>, n |-> a.last]

\* "async with self._cond" finds the lock free (asyncio.Lock.acquire fast path)
LockFree == ~locked /\ lockq = <<>>

\* the call returns r and leaves "async with": the lock is released
Return(t, a, r) ==
  /\ pc' = [pc EXCEPT ![t] = "done"]
  /\ arg' = [arg EXCEPT ![t] = a]
  /\ ret' = [ret EXCEPT ![t] = r]
  /\ seen' = IF a.chain
             THEN [seen EXCEPT ![t] = [list |-> seen[t].list \o r.list, n |-> r.n]]
             ELSE seen
  /\ locked' = FALSE
  /\ UNCHANGED <<StoreVars, ever, snap, FlowVars>>

\* variant: the waiter parks without releasing the lock
Park_HoldingLock(t, a) ==
  /\ pc' = [pc EXCEPT ![t] = "parked"]
  /\ arg' = [arg EXCEPT ![t] = a]
  /\ locked' = TRUE
  /\ UNCHANGED <<StoreVars, ret, ever, seen, snap, FlowVars>>

\* Condition.wait(): release the lock and park on a new future
Park(t, a) ==
  /\ pc' = [pc EXCEPT ![t] = "parked"]
  /\ arg' = [arg EXCEPT ![t] = a]
  /\ locked' = FALSE
  /\ UNCHANGED <<StoreVars, ret, ever, seen, snap, FlowVars>>

\* the task is suspended while the lock stays held (asyncio.wait_for running
\* Condition.wait_for in an inner task: Python up to 3.11)
Hold(t, a, where) ==
  /\ pc' = [pc EXCEPT ![t] = where]
  /\ arg' = [arg EXCEPT ![t] = a]
  /\ locked' = TRUE
  /\ UNCHANGED <<StoreVars, ret, ever, seen, snap, FlowVars>>

\* lines 107-122 / 136-150 from the point where the lock has been taken
WaitBody(t, a) ==
  IF changed(a) THEN Return(t, a, WaitResult(a))
  ELSE IF ~a.tmo THEN Park(t, a)
  ELSE Park(t, a) \/ Hold(t, a, "spawn")

\* Condition.wait_for after a wake-up: the predicate is evaluated again
Recheck(t) ==
  IF changed(arg[t])
  THEN IF ~arg[t].tmo THEN Return(t, arg[t], WaitResult(arg[t]))
       ELSE Return(t, arg[t], WaitResult(arg[t])) \/ Hold(t, arg[t], "innerdone")
  ELSE Park(t, arg[t])

\* the task queues on the lock
Enqueue(t, a, where) ==
  /\ lockq' = Append(lockq, t)
  /\ pc' = [pc EXCEPT ![t] = where]
  /\ arg' = [arg EXCEPT ![t] = a]
  /\ UNCHANGED <<StoreVars, locked, ret, ever, seen, snap, FlowVars>>

\* the store operation a mutator asked for, applied to the store
Apply(a) ==
  CASE a.op = "append" -> append(Store, a.order, a.payload[1])
    [] a.op = "delete" -> delete(Store, a.order)
    [] a.op = "latest_order" -> latest_order(Store)
    [] a.op = "set" ->
         LET r == set([Store EXCEPT !.mem = NewList(Mem, Temp, a.payload)],
                      a.order, Temp)
         IN [r EXCEPT !.store.mem = Unbind(r.store.mem, Temp)]
    [] a.op = "get" ->
         LET r == get(Store, a.order, Temp)
         IN [store |-> [r.store EXCEPT !.mem = Unbind(r.store.mem, Temp)],
             notify |-> r.notify,
             result |-> Content(r.store.mem, r.result)]

\* what the caller sees of a result
Shown(a, result) ==
  CASE a.op = "append" -> [list |-> <<>>, n |-> result]
    [] a.op = "get" -> [list |-> result, n |-> Len(result)]
    [] a.op = "latest_order" ->
         IF result = None THEN [list |-> <<>>, n |-> 0]
         ELSE [list |-> <<result>>, n |-> result[1]]
    [] OTHER -> [list |-> <<>>, n |-> 0]

NonEmptyIn(m) == {o \in Orders : Content(m, o) # <<>>}

\* variant: Condition.notify(), one parked waiter only
NotifyAll_One(p) ==
  IF \E u \in Tasks : p[u] = "parked"
  THEN [p EXCEPT ![CHOOSE u \in Tasks : p[u] = "parked"] = "notified"]
  ELSE p

\* Condition.notify_all(): every parked waiter's future is resolved
NotifyAll(p) == [u \in Tasks |-> IF p[u] = "parked" THEN "notified" ELSE p[u]]

\* variant: the waiters are notified only when the order is a new key
Exec_NotifyNewKeyOnly(t, a) ==
  \E r \in {Apply(a)} :
  LET p == [pc EXCEPT ![t] = "done"]
  IN /\ ref' = r.store.mem.ref
     /\ heap' = r.store.mem.heap
     /\ order_seq' = r.store.seq
     /\ new_orders' = r.store.ledger
     /\ pc' = IF r.notify /\ a.order # None /\ ~Known(a.order) THEN NotifyAll(p) ELSE p
     /\ arg' = [arg EXCEPT ![t] = a]
     /\ ret' = [ret EXCEPT ![t] = Shown(a, r.result)]
     /\ ever' = ever \cup NonEmptyIn(r.store.mem)
     /\ locked' = FALSE
     /\ UNCHANGED <<seen, snap, FlowVars>>

\* body of set/get/append/delete/latest_order under the lock: no await inside
Exec(t, a) ==
  \E r \in {Apply(a)} :
  LET p == [pc EXCEPT ![t] = "done"]
  IN /\ ref' = r.store.mem.ref
     /\ heap' = r.store.mem.heap
     /\ order_seq' = r.store.seq
     /\ new_orders' = r.store.ledger
     /\ pc' = IF r.notify THEN NotifyAll(p) ELSE p
     /\ arg' = [arg EXCEPT ![t] = a]
     /\ ret' = [ret EXCEPT ![t] = Shown(a, r.result)]
     /\ ever' = ever \cup NonEmptyIn(r.store.mem)
     /\ locked' = FALSE
     /\ UNCHANGED <<seen, snap, FlowVars>>

Body(t, a) == IF t \in Mutators THEN Exec(t, a) ELSE WaitBody(t, a)

\* a call starts: "async with self._cond", then the body or the lock queue
Call(t, a) ==
  /\ pc[t] = "idle"
  /\ IF LockFree
     THEN Body(t, a) /\ UNCHANGED lockq
     ELSE Enqueue(t, a, "acq")

\* a queued task is handed the lock (Lock.release wakes the first waiter)
LockGrant(t) ==
  /\ pc[t] \in {"acq", "reacq", "creacq"}
  /\ ~locked
  /\ lockq # <<>>
  /\ Head(lockq) = t
  /\ lockq' = Tail(lockq)
  /\ CASE pc[t] = "acq" -> Body(t, arg[t])
       [] pc[t] = "reacq" -> Recheck(t)
       [] pc[t] = "creacq" ->
            \/ Return(t, arg[t], TimeoutResult(arg[t]))
            \/ Hold(t, arg[t], "timedout")

\* the inner task of asyncio.wait_for starts Condition.wait_for
SpawnRun(t) ==
  /\ pc[t] = "spawn"
  /\ IF changed(arg[t]) THEN Hold(t, arg[t], "innerdone") ELSE Park(t, arg[t])
  /\ UNCHANGED lockq

\* a notified waiter runs: Condition.wait re-acquires the lock
Wake(t) ==
  /\ pc[t] = "notified"
  /\ IF LockFree
     THEN Recheck(t) /\ UNCHANGED lockq
     ELSE Enqueue(t, arg[t], "reacq")

\* the outer task resumes after its inner task finished with the lock held
InnerDone(t) ==
  /\ pc[t] = "innerdone"
  /\ Return(t, arg[t], WaitResult(arg[t]))
  /\ UNCHANGED lockq

\* the timeout of asyncio.wait_for expires: the wait is cancelled
Timeout(t) ==
  /\ arg[t].tmo
  /\ \/ /\ pc[t] \in {"parked", "notified"}
        /\ pc' = [pc EXCEPT ![t] = "cancelled"]
        /\ UNCHANGED <<StoreVars, locked, lockq, arg, ret, ever, seen, snap, FlowVars>>
     \/ /\ pc[t] = "reacq"
        /\ pc' = [pc EXCEPT ![t] = "cancelled"]
        /\ lockq' = SelectSeq(lockq, LAMBDA u : u # t)
        /\ UNCHANGED <<StoreVars, locked, arg, ret, ever, seen, snap, FlowVars>>
     \/ /\ pc[t] = "spawn"
        /\ Return(t, arg[t], TimeoutResult(arg[t]))
        /\ UNCHANGED lockq

\* a cancelled waiter runs: Condition.wait re-acquires the lock in its
\* finally block, then the except clause returns [], last_index
CancelRun(t) ==
  /\ pc[t] = "cancelled"
  /\ IF LockFree
     THEN /\ \/ Return(t, arg[t], TimeoutResult(arg[t]))
             \/ Hold(t, arg[t], "timedout")
          /\ UNCHANGED lockq
     ELSE Enqueue(t, arg[t], "creacq")

\* the outer task resumes with asyncio.TimeoutError, the lock held
TimedOut(t) ==
  /\ pc[t] = "timedout"
  /\ Return(t, arg[t], TimeoutResult(arg[t]))
  /\ UNCHANGED lockq

\* the caller takes the result; the task can call again
Finish(t) ==
  /\ pc[t] = "done"
  /\ pc' = [pc EXCEPT ![t] = "idle"]
  /\ arg' = [arg EXCEPT ![t] = NoArg]
  /\ ret' = [ret EXCEPT ![t] = NoRet]
  /\ UNCHANGED <<StoreVars, locked, lockq, ever, seen, snap, FlowVars>>

\* ---------------------------------------------------------------- calls
WaitArgs(op, o, k, tm, ch) ==
  [op |-> op, order |-> o, last |-> k, tmo |-> tm, chain |-> ch, payload |-> <<>>]
OpArgs(op, o, evs) ==
  [op |-> op, order |-> o, last |-> 0, tmo |-> FALSE, chain |-> FALSE, payload |-> evs]

\* wait_for_events(o, k, timeout) with any last_index
CallWaitForEvents(t, o, k, tm) == Call(t, WaitArgs("wait_for_events", o, k, tm, FALSE))

\* wait_for_new_orders(last_seq, timeout), last_seq fed back from the last call
CallWaitForNewOrders(t, tm) ==
  Call(t, WaitArgs("wait_for_new_orders", None, seen[t].n, tm, TRUE))

CallSet(t, o, evs) ==
  /\ (~Known(o) /\ evs # <<>>) => order_seq < MaxSeq
  /\ Call(t, OpArgs("set", o, evs))

CallGet(t, o) == Call(t, OpArgs("get", o, <<>>))

CallAppend(t, o, e) ==
  /\ Len(Stream(o)) < MaxLen
  /\ ~Known(o) => order_seq < MaxSeq
  /\ Call(t, OpArgs("append", o, <<e>>))

CallDelete(t, o) == Call(t, OpArgs("delete", o, <<>>))

CallLatestOrder(t) == Call(t, OpArgs("latest_order", None, <<>>))

\* ------------------------------------------------------- specification
Init ==
  /\ ref = [h \in Holders |-> None]
  /\ heap = [h \in Holders |-> <<>>]
  /\ order_seq = 0
  /\ new_orders = <<>>
  /\ locked = FALSE
  /\ lockq = <<>>
  /\ pc = [t \in Tasks |-> "idle"]
  /\ arg = [t \in Tasks |-> NoArg]
  /\ ret = [t \in Tasks |-> NoRet]
  /\ ever = {}
  /\ seen = [t \in Tasks |-> [list |-> <<>>, n |-> 0]]
  /\ snap = [c \in Clients |-> None]
  /\ chat = <<>>
  /\ read = [a \in Participants |-> 0]
  /\ call = NoCall
  /\ responses = <<>>
  /\ summary = None
  /\ codec = NoCodec
  /\ clock = NoClock

\* the store used by one task at a time: every operation, every argument
Next ==
  \/ \E t \in Mutators, o \in Orders, evs \in SeqsUpTo(Events, MaxLen) :
       CallSet(t, o, evs)
  \/ \E t \in Mutators, o \in Orders : CallGet(t, o)
  \/ \E t \in Mutators, o \in Orders, e \in Events : CallAppend(t, o, e)
  \/ \E t \in Mutators, o \in Orders : CallDelete(t, o)
  \/ \E t \in Mutators : CallLatestOrder(t)
  \/ \E t \in Mutators : Finish(t)

Spec == Init /\ [][Next]_vars

\* the steps the event loop takes for a task that is inside a call
Resume(t) ==
  \/ LockGrant(t)
  \/ SpawnRun(t)
  \/ Wake(t)
  \/ InnerDone(t)
  \/ CancelRun(t)
  \/ TimedOut(t)

\* two waiters on one order while a third task appends, sets and deletes
WaitOrder == "O1"
WaitEvents == {"ev1"}

WaitNext ==
  \/ \E t \in EventWaiters, k \in 0..MaxIndex, tm \in BOOLEAN :
       CallWaitForEvents(t, WaitOrder, k, tm)
  \/ \E t \in Mutators, evs \in SeqsUpTo(WaitEvents, MaxLen) :
       CallSet(t, WaitOrder, evs)
  \/ \E t \in Mutators, e \in WaitEvents : CallAppend(t, WaitOrder, e)
  \/ \E t \in Mutators : CallDelete(t, WaitOrder)
  \/ \E t \in Tasks : LockGrant(t)
  \/ \E t \in Tasks : SpawnRun(t)
  \/ \E t \in Tasks : Wake(t)
  \/ \E t \in Tasks : InnerDone(t)
  \/ \E t \in Tasks : Timeout(t)
  \/ \E t \in Tasks : CancelRun(t)
  \/ \E t \in Tasks : TimedOut(t)
  \/ \E t \in Tasks : Finish(t)

WaitSpec == Init /\ [][WaitNext]_vars

\* wait_for_events(o, last_index, timeout), last_index being the new_index
\* the previous call returned (0 for the first call)
CallNextEvents(t, o, tm) ==
  Call(t, WaitArgs("wait_for_events", o, seen[t].n, tm, TRUE))

\* a consumer chaining wait_for_events calls from index 0, a second waiter
\* without timeout, and a task that only appends
Consumer == "w1"
Blocker == "w2"

AppendNext ==
  \/ \E tm \in BOOLEAN : CallNextEvents(Consumer, WaitOrder, tm)
  \/ \E k \in 0..MaxIndex : CallWaitForEvents(Blocker, WaitOrder, k, FALSE)
  \/ \E t \in Mutators, e \in Events : CallAppend(t, WaitOrder, e)
  \/ \E t \in Tasks : LockGrant(t)
  \/ \E t \in Tasks : SpawnRun(t)
  \/ \E t \in Tasks : Wake(t)
  \/ \E t \in Tasks : InnerDone(t)
  \/ \E t \in Tasks : Timeout(t)
  \/ \E t \in Tasks : CancelRun(t)
  \/ \E t \in Tasks : TimedOut(t)
  \/ \E t \in Tasks : Finish(t)

\* the asyncio event loop runs every task that is ready to run
AppendSpec ==
  Init /\ [][AppendNext]_vars /\ \A t \in Tasks : WF_vars(Resume(t))

\* a consumer chaining wait_for_new_orders calls from sequence 0 while
\* another task appends, sets and deletes on both orders
OrdersNext ==
  \/ \E t \in OrderWaiters, tm \in BOOLEAN : CallWaitForNewOrders(t, tm)
  \/ \E t \in Mutators, o \in Orders, evs \in SeqsUpTo(WaitEvents, MaxLen) :
       CallSet(t, o, evs)
  \/ \E t \in Mutators, o \in Orders, e \in WaitEvents : CallAppend(t, o, e)
  \/ \E t \in Mutators, o \in Orders : CallDelete(t, o)
  \/ \E t \in Tasks : LockGrant(t)
  \/ \E t \in Tasks : SpawnRun(t)
  \/ \E t \in Tasks : Wake(t)
  \/ \E t \in Tasks : InnerDone(t)
  \/ \E t \in Tasks : Timeout(t)
  \/ \E t \in Tasks : CancelRun(t)
  \/ \E t \in Tasks : TimedOut(t)
  \/ \E t \in Tasks : Finish(t)

OrdersSpec == Init /\ [][OrdersNext]_vars

\* wait_for_new_orders(last_seq, timeout) with a last_seq the caller chose
CallWaitForNewOrdersFrom(t, k, tm) ==
  Call(t, WaitArgs("wait_for_new_orders", None, k, tm, FALSE))

\* a waiter on events, a waiter on new orders and a task that uses every
\* other operation of the store, under the scheduling of the event loop
LockNext ==
  \/ \E tm \in BOOLEAN : CallWaitForEvents(Consumer, WaitOrder, 1, tm)
  \/ \E t \in OrderWaiters : CallWaitForNewOrdersFrom(t, 1, TRUE)
  \/ \E t \in Mutators : CallSet(t, WaitOrder, <<>>)
  \/ \E t \in Mutators : CallGet(t, WaitOrder)
  \/ \E t \in Mutators, e \in WaitEvents : CallAppend(t, WaitOrder, e)
  \/ \E t \in Mutators : CallDelete(t, WaitOrder)
  \/ \E t \in Mutators : CallLatestOrder(t)
  \/ \E t \in Tasks : LockGrant(t)
  \/ \E t \in Tasks : SpawnRun(t)
  \/ \E t \in Tasks : Wake(t)
  \/ \E t \in Tasks : InnerDone(t)
  \/ \E t \in Tasks : Timeout(t)
  \/ \E t \in Tasks : CancelRun(t)
  \/ \E t \in Tasks : TimedOut(t)
  \/ \E t \in Tasks : Finish(t)

LockSpec ==
  Init /\ [][LockNext]_vars /\ \A t \in Tasks : WF_vars(Resume(t))

\* a waiter on the events of one order and a waiter on new orders, each with
\* any last_index / last_seq, while a third task sets any list, appends and
\* deletes
WakeNext ==
  \/ \E k \in 0..MaxIndex, tm \in BOOLEAN :
       CallWaitForEvents(Consumer, WaitOrder, k, tm)
  \/ \E t \in OrderWaiters : CallWaitForNewOrdersFrom(t, 1, FALSE)
  \/ \E t \in Mutators, evs \in SeqsUpTo(Events, MaxLen) : CallSet(t, WaitOrder, evs)
  \/ \E t \in Mutators, e \in Events : CallAppend(t, WaitOrder, e)
  \/ \E t \in Mutators : CallDelete(t, WaitOrder)
  \/ \E t \in Tasks : LockGrant(t)
  \/ \E t \in Tasks : SpawnRun(t)
  \/ \E t \in Tasks : Wake(t)
  \/ \E t \in Tasks : InnerDone(t)
  \/ \E t \in Tasks : Timeout(t)
  \/ \E t \in Tasks : CancelRun(t)
  \/ \E t \in Tasks : TimedOut(t)
  \/ \E t \in Tasks : Finish(t)

WakeSpec == Init /\ [][WakeNext]_vars

\* ------------------------------------------------- the caller's own lists
\* One caller keeps the lists it passes to set and gets from get in its
\* variables (Clients) and goes on using them.  snap[c] = o records that c
\* was returned by get(o) or passed to set(o) and that neither c nor the
\* stream of o has been written since; "dirty" that the caller wrote to c.
Dirty == "dirty"
Stale(o) == [c \in Clients |-> IF snap[c] = o THEN None ELSE snap[c]]
Written(c) == [snap EXCEPT ![c] = IF snap[c] = None THEN None ELSE Dirty]

\* a store operation with result r runs under the free lock
StoreStep(r, snap2) ==
  /\ LockFree
  /\ ref' = r.store.mem.ref
  /\ heap' = r.store.mem.heap
  /\ order_seq' = r.store.seq
  /\ new_orders' = r.store.ledger
  /\ pc' = IF r.notify THEN NotifyAll(pc) ELSE pc
  /\ ever' = ever \cup NonEmptyIn(r.store.mem)
  /\ snap' = snap2
  /\ UNCHANGED FlowVars
  /\ UNCHANGED <<locked, lockq, arg, ret, seen>>

\* a statement of the caller on its own variables
ClientStep(m, snap2) ==
  /\ ref' = m.ref
  /\ heap' = m.heap
  /\ snap' = snap2
  /\ UNCHANGED FlowVars
  /\ UNCHANGED <<order_seq, new_orders, locked, lockq, pc, arg, ret, ever, seen>>

\* c = await store.get(o)
DoGet(c, o) ==
  \E r \in {get(Store, o, c)} : StoreStep(r, [snap EXCEPT ![c] = o])

\* await store.set(o, c)
DoSet(o, c) ==
  /\ ref[c] # None
  /\ (~Known(o) /\ Content(Mem, c) # <<>>) => order_seq < MaxSeq
  /\ \E r \in {set(Store, o, c)} : StoreStep(r, [Stale(o) EXCEPT ![c] = o])

\* await store.append(o, e)
DoAppend(o, e) ==
  /\ Len(Stream(o)) < MaxLen
  /\ ~Known(o) => order_seq < MaxSeq
  /\ \E r \in {append(Store, o, e)} : StoreStep(r, Stale(o))

\* c = [...]
ClientNew(c, evs) == ClientStep(NewList(Mem, c, evs), [snap EXCEPT ![c] = None])

\* c.append(e)
ClientAppend(c, e) ==
  /\ ref[c] # None
  /\ Len(Content(Mem, c)) < MaxLen
  /\ ClientStep(Mutate(Mem, c, Append(Content(Mem, c), e)), Written(c))

\* c.pop()
ClientPop(c) ==
  /\ ref[c] # None
  /\ Content(Mem, c) # <<>>
  /\ ClientStep(Mutate(Mem, c, SubSeq(Content(Mem, c), 1, Len(Content(Mem, c)) - 1)),
                Written(c))

Reverse(q) == [i \in 1..Len(q) |-> q[Len(q) + 1 - i]]

\* c.reverse()
ClientReverse(c) ==
  /\ ref[c] # None
  /\ Reverse(Content(Mem, c)) # Content(Mem, c)
  /\ ClientStep(Mutate(Mem, c, Reverse(Content(Mem, c))), Written(c))

ClientWrites ==
  \E c \in Clients :
    \/ \E e \in Events : ClientAppend(c, e)
    \/ ClientPop(c)
    \/ ClientReverse(c)

AliasNext ==
  \/ \E c \in Clients : DoGet(c, WaitOrder)
  \/ \E c \in Clients : DoSet(WaitOrder, c)
  \/ \E e \in Events : DoAppend(WaitOrder, e)
  \/ \E c \in Clients, evs \in SeqsUpTo(Events, MaxLen) : ClientNew(c, evs)
  \/ \E c \in Clients, e \in Events : ClientAppend(c, e)
  \/ \E c \in Clients : ClientPop(c)
  \/ \E c \in Clients : ClientReverse(c)

AliasSpec == Init /\ [][AliasNext]_vars

\* ---------------------------------------------------------------- strings
\* Python str values are strings; a character is a string of length 1.
Char(s, i) == SubSeq(s, i, i)

Uppers == "ABCDEFGHIJKLMNOPQRSTUVWXYZ"
Lowers == "abcdefghijklmnopqrstuvwxyz"
Digits == "0123456789"
CharsOf(s) == {Char(s, i) : i \in 1..Len(s)}
Whitespace == {" ", "\t", "\n"}

\* str.lower(), character by character
LowerOf == [c \in CharsOf(Uppers) |->
              Char(Lowers, CHOOSE i \in 1..Len(Uppers) : Char(Uppers, i) = c)]
LowerChar(c) == IF c \in DOMAIN LowerOf THEN LowerOf[c] ELSE c

RECURSIVE lower(_)
lower(s) ==
  IF Len(s) <= 1 THEN LowerChar(s)
  ELSE lower(SubSeq(s, 1, Len(s) \div 2)) \o lower(SubSeq(s, Len(s) \div 2 + 1, Len(s)))

UpperOf == [c \in CharsOf(Lowers) |->
              Char(Uppers, CHOOSE i \in 1..Len(Lowers) : Char(Lowers, i) = c)]
UpperChar(c) == IF c \in DOMAIN UpperOf THEN UpperOf[c] ELSE c

\* str.title(): a letter that follows a letter is lowercased, any other
\* letter is uppercased
RECURSIVE title(_)
title(s) ==
  IF s = "" THEN ""
  ELSE LET n    == Len(s)
           c    == Char(s, n)
           prev == IF n = 1 THEN "" ELSE Char(s, n - 1)
           cased == prev # "" /\ prev \in (CharsOf(Uppers) \cup CharsOf(Lowers))
       IN title(SubSeq(s, 1, n - 1)) \o (IF cased THEN LowerChar(c) ELSE UpperChar(c))

\* "key in s": key occurs in s as a substring
Contains(s, key) ==
  \E i \in 1..(Len(s) - Len(key) + 1) : SubSeq(s, i, i + Len(key) - 1) = key

\* s.lstrip(chars) / s.rstrip(chars) / s.strip()
RECURSIVE lstrip(_, _)
lstrip(s, chars) ==
  IF s # "" /\ Char(s, 1) \in chars THEN lstrip(SubSeq(s, 2, Len(s)), chars) ELSE s

RECURSIVE rstrip(_, _)
rstrip(s, chars) ==
  IF s # "" /\ Char(s, Len(s)) \in chars THEN rstrip(SubSeq(s, 1, Len(s) - 1), chars) ELSE s

strip(s) == rstrip(lstrip(s, Whitespace), Whitespace)

\* the number of characters of s from position i on that lie in chars
RECURSIVE Run(_, _, _)
Run(s, i, chars) ==
  IF i <= Len(s) /\ Char(s, i) \in chars THEN 1 + Run(s, i + 1, chars) ELSE 0

\* sep.join(parts)
RECURSIVE join(_, _)
join(sep, parts) ==
  IF parts = <<>> THEN ""
  ELSE IF Len(parts) = 1 THEN parts[1]
  ELSE parts[1] \o sep \o join(sep, Tail(parts))

\* the least element of a non-empty set of integers
Least(S) == CHOOSE i \in S : \A j \in S : i <= j

\* ------------------------------------------------------ status vocabulary
\* the values of LogisticsStatus in declaration order, which is the
\* iteration order of STATUS_LOOKUP
LogisticsStatus ==
  <<"RECEIVED_ORDER", "HANDOVER_TO_SHIPPER", "CUSTOMS_CLEARANCE",
    "PAYMENT_COMPLETE", "DELIVERED", "STATUS_UNKNOWN">>

\* variant: the status whose token comes first in the text
extract_status_FirstInText(message) ==
  LET at(k) == {i \in 1..(Len(message) - Len(LogisticsStatus[k]) + 1) :
                  SubSeq(message, i, i + Len(LogisticsStatus[k]) - 1) = LogisticsStatus[k]}
      found == {k \in 1..Len(LogisticsStatus) : at(k) # {}}
  IN IF found = {} THEN "STATUS_UNKNOWN"
     ELSE LogisticsStatus[CHOOSE k \in found :
                            \A j \in found : Least(at(k)) <= Least(at(j))]

\* extract_status: the first status of the lookup table that occurs in the text
extract_status(message) ==
  LET found == {k \in 1..Len(LogisticsStatus) : Contains(message, LogisticsStatus[k])}
  IN IF found = {} THEN "STATUS_UNKNOWN" ELSE LogisticsStatus[Least(found)]

\* ORDER_ID_RE = Order\s+([A-Za-z0-9\-]+), case-blind
IdChars == CharsOf(Uppers) \cup CharsOf(Lowers) \cup CharsOf(Digits) \cup {"-"}

\* the positions of message where ORDER_ID_RE matches
OrderIdMatches(message) ==
  {i \in 1..(Len(message) - 4) :
     /\ lower(SubSeq(message, i, i + 4)) = "order"
     /\ Run(message, i + 5, Whitespace) >= 1
     /\ Run(message, i + 5 + Run(message, i + 5, Whitespace), IdChars) >= 1}

\* variant: ORDER_ID_RE without re.IGNORECASE
extract_order_id_CaseSensitive(message) ==
  LET matches == {i \in OrderIdMatches(message) : SubSeq(message, i, i + 4) = "Order"}
  IN IF matches = {} THEN None
     ELSE LET i     == Least(matches)
              start == i + 5 + Run(message, i + 5, Whitespace)
          IN SubSeq(message, start, start + Run(message, start, IdChars) - 1)

\* extract_order_id: group 1 of the first match, None without a match
extract_order_id(message) ==
  IF OrderIdMatches(message) = {} THEN None
  ELSE LET i     == Least(OrderIdMatches(message))
           start == i + 5 + Run(message, i + 5, Whitespace)
       IN SubSeq(message, start, start + Run(message, start, IdChars) - 1)

\* variant: a fallback, when given, wins over the id of the message
ensure_order_id_FallbackFirst(message, fallback, uuid) ==
  IF fallback \notin {None, ""} THEN fallback
  ELSE IF extract_order_id(message) \notin {None, ""} THEN extract_order_id(message)
  ELSE uuid

\* ensure_order_id: the id of the message, else the fallback, else a new uuid
\* ("" and None are both false for Python's "or")
ensure_order_id(message, fallback, uuid) ==
  IF extract_order_id(message) \notin {None, ""} THEN extract_order_id(message)
  ELSE IF fallback \notin {None, ""} THEN fallback
  ELSE uuid

\* variant: every narrative is the one of _base_transition_narrative with the
\* state the order comes from
specialized_narrative_NamingFromState(order_id, to_state, sender, receiver) ==
  LET head == to_state \o " | " \o sender \o " -> " \o receiver \o ": "
      from == CASE to_state = "HANDOVER_TO_SHIPPER" -> "RECEIVED_ORDER"
                [] to_state = "CUSTOMS_CLEARANCE" -> "HANDOVER_TO_SHIPPER"
                [] to_state = "PAYMENT_COMPLETE" -> "CUSTOMS_CLEARANCE"
                [] to_state = "DELIVERED" -> "PAYMENT_COMPLETE"
                [] OTHER -> to_state
  IN IF to_state \in {"RECEIVED_ORDER", "HANDOVER_TO_SHIPPER", "CUSTOMS_CLEARANCE",
                      "PAYMENT_COMPLETE", "DELIVERED"}
     THEN head \o "Order " \o order_id \o " advanced from " \o from
               \o " to " \o to_state \o "."
     ELSE None

\* _specialized_narrative: the sentence of a known state; None for the rest
specialized_narrative(order_id, to_state, sender, receiver) ==
  LET head == to_state \o " | " \o sender \o " -> " \o receiver \o ": "
  IN CASE to_state = "CUSTOMS_CLEARANCE" ->
            head \o "Customs cleared for order " \o order_id
                 \o "; documents forwarded for payment processing."
       [] to_state = "PAYMENT_COMPLETE" ->
            head \o "Payment confirmed on order " \o order_id
                 \o "; preparing final delivery."
       [] to_state = "DELIVERED" ->
            head \o "Order " \o order_id
                 \o " delivered successfully; closing shipment cycle."
       [] to_state = "HANDOVER_TO_SHIPPER" ->
            head \o "Order " \o order_id \o " handed off for international transit."
       [] to_state = "RECEIVED_ORDER" ->
            head \o "Order " \o order_id
                 \o " intake acknowledged; initiating processing workflow."
       [] OTHER -> None

SentenceEnd == {".", "!", "?", " "}

\* variant: a state without a narrative of its own gets the generic one of
\* _base_transition_narrative
build_transition_message_Generic(order_id, sender, receiver, to_state, details) ==
  LET specialized == specialized_narrative(order_id, to_state, sender, receiver)
  IN IF specialized = None
     THEN to_state \o " | " \o sender \o " -> " \o receiver \o ": Order "
            \o order_id \o " advanced to " \o to_state \o "."
     ELSE IF details \notin {None, ""}
          THEN rstrip(specialized, SentenceEnd) \o ". "
                 \o rstrip(strip(details), SentenceEnd) \o "."
          ELSE specialized

\* build_transition_message: the narrative, then the details as a sentence;
\* nothing is returned for a state without a narrative
build_transition_message(order_id, sender, receiver, to_state, details) ==
  LET specialized == specialized_narrative(order_id, to_state, sender, receiver)
  IN IF specialized = None THEN None
     ELSE IF details \notin {None, ""}
          THEN rstrip(specialized, SentenceEnd) \o ". "
                 \o rstrip(strip(details), SentenceEnd) \o "."
          ELSE specialized

\* ------------------------------------------------------------ the agents
\* variant: the transitions listed in the docstring of FarmAgent.__init__
farm_node_AsDocumented(raw, uuid) ==
  LET status   == extract_status(raw)
      order_id == ensure_order_id(raw, None, uuid)
  IN CASE status = "HANDOVER_TO_SHIPPER" ->
            build_transition_message(order_id, "Tatooine Farm", "Shipper",
                                     "CUSTOMS_CLEARANCE", None)
       [] status = "PAYMENT_COMPLETE" ->
            build_transition_message(order_id, "Tatooine Farm", "Shipper",
                                     "DELIVERED", None)
       [] OTHER -> "Logistic Farm remains IDLE. No further action required."

\* FarmAgent._farm_node: the reply to the text raw
farm_node(raw, uuid) ==
  LET status   == extract_status(raw)
      order_id == ensure_order_id(raw, None, uuid)
  IN IF status = "RECEIVED_ORDER"
     THEN build_transition_message(order_id, "Tatooine Farm", "Shipper",
                                   "HANDOVER_TO_SHIPPER",
                                   "Prepared shipment and documentation")
     ELSE "Logistic Farm remains IDLE. No further action required."

\* variant: the Accountant acts on PAYMENT_COMPLETE
accountant_node_OnPayment(raw, uuid) ==
  LET status   == extract_status(raw)
      order_id == ensure_order_id(raw, None, uuid)
  IN IF status = "PAYMENT_COMPLETE"
     THEN build_transition_message(order_id, "Accountant", "Shipper",
                                   "PAYMENT_COMPLETE",
                                   "Payment verified and captured")
     ELSE "Accountant remains IDLE. No further action required."

\* AccountantAgent._accountant_node
accountant_node(raw, uuid) ==
  LET status   == extract_status(raw)
      order_id == ensure_order_id(raw, None, uuid)
  IN IF status = "CUSTOMS_CLEARANCE"
     THEN build_transition_message(order_id, "Accountant", "Shipper",
                                   "PAYMENT_COMPLETE",
                                   "Payment verified and captured")
     ELSE "Accountant remains IDLE. No further action required."

\* the Shipper: HANDOVER_TO_SHIPPER -> CUSTOMS_CLEARANCE and
\* PAYMENT_COMPLETE -> DELIVERED, idle otherwise
shipper_node(raw, uuid) ==
  LET status   == extract_status(raw)
      order_id == ensure_order_id(raw, None, uuid)
  IN CASE status = "HANDOVER_TO_SHIPPER" ->
            build_transition_message(order_id, "Shipper", "Accountant",
                                     "CUSTOMS_CLEARANCE", None)
       [] status = "PAYMENT_COMPLETE" ->
            build_transition_message(order_id, "Shipper", "Supervisor",
                                     "DELIVERED", None)
       [] OTHER -> "Shipper remains IDLE. No further action required."

\* the reply of participant a to the text raw
Reply(a, raw, uuid) ==
  CASE a = "Farm" -> farm_node(raw, uuid)
    [] a = "Shipper" -> shipper_node(raw, uuid)
    [] a = "Accountant" -> accountant_node(raw, uuid)

\* ------------------------------------------------- the group conversation
MaxChat == 5           \* idle replies are kept up to this conversation length
OrderId == "0af37c1e9b2d4e6f8a1b3c5d7e9f0a2b"   \* uuid4().hex of the order
NewUuid == "9c1e5a7b3d2f"   \* uuid4().hex[:12], for a text that names no order

\* tools.py line 89: the text that starts the conversation
RequestText(order_id, price, quantity) ==
  "RECEIVED_ORDER | Supervisor -> Tatooine Farm: Create an order " \o order_id
    \o " with price " \o price \o " and quantity " \o quantity \o "."

InitMessage == RequestText(OrderId, "5.0", "10")

\* the texts a conversation started by InitMessage can carry, and the reply
\* of every participant to each of them
Replies(S) == S \cup {Reply(a, t, NewUuid) : a \in Participants, t \in S}
Texts == Replies(Replies(Replies(Replies(Replies({InitMessage})))))
ReplyOf == [a \in Participants |-> [t \in Texts |-> Reply(a, t, NewUuid)]]

Said(name, text) == [name |-> name, text |-> text]

\* end_message="DELIVERED": the conversation is over once a message has it
Ended == \E i \in 1..Len(chat) : Contains(chat[i].text, "DELIVERED")

\* an idle reply
IsIdle(text) == Contains(text, "IDLE")

StoreSide == <<ref, heap, order_seq, new_orders, locked, lockq, pc, arg, ret,
               ever, seen, snap>>

\* client.start_groupchat(init_message=request, ...)
StartGroupchat ==
  /\ chat = <<>>
  /\ chat' = <<Said("Supervisor", InitMessage)>>
  /\ UNCHANGED <<read, call, responses, summary, codec, clock, StoreSide>>

\* participant a handles the next message of the conversation and answers on
\* the channel; it may or may not be handed its own messages
React(a) ==
  /\ ~Ended
  /\ read[a] < Len(chat)
  /\ read' = [read EXCEPT ![a] = read[a] + 1]
  /\ LET m     == chat[read[a] + 1]
         reply == IF m.text \in Texts THEN ReplyOf[a][m.text]
                  ELSE Reply(a, m.text, NewUuid)
     IN \/ /\ IsIdle(reply) => Len(chat) < MaxChat
           /\ chat' = Append(chat, Said(a, reply))
        \/ /\ IsIdle(reply)
           /\ Len(chat) >= MaxChat
           /\ UNCHANGED chat
        \/ /\ m.name = a
           /\ UNCHANGED chat
  /\ UNCHANGED <<call, responses, summary, codec, clock, StoreSide>>

ChatNext ==
  \/ StartGroupchat
  \/ \E a \in Participants : React(a)

\* every participant that has a message to handle eventually handles it
ChatSpec ==
  /\ Init
  /\ [][ChatNext]_vars
  /\ WF_vars(StartGroupchat)
  /\ \A a \in Participants : WF_vars(React(a))

\* ------------------------------------------------------- the status line
\* An A2A response: ok is FALSE for an entry that raises inside the loop
\* body (no root.result, a text that is not a str); name is the metadata
\* entry "name" (None when there is none); parts are the part texts.
Response(ok, name, parts) == [ok |-> ok, name |-> name, parts |-> parts]

\* the first part text that is non-empty after strip(), stripped; else ""
first_text(parts) ==
  LET filled == {i \in 1..Len(parts) : strip(parts[i]) # ""}
  IN IF filled = {} THEN "" ELSE strip(parts[Least(filled)])

\* \w of a regular expression
WordChars == CharsOf(Uppers) \cup CharsOf(Lowers) \cup CharsOf(Digits) \cup {"_"}

\* variant: "delivered" anywhere in the text, inside a longer word too
delivered_AnySubstring(text) == Contains(lower(text), "delivered")

\* re.search(r"\bdelivered\b", text, re.IGNORECASE)
delivered(text) ==
  \E i \in 1..(Len(text) - 8) :
    /\ lower(SubSeq(text, i, i + 8)) = "delivered"
    /\ i = 1 \/ Char(text, i - 1) \notin WordChars
    /\ i + 8 = Len(text) \/ Char(text, i + 9) \notin WordChars

\* "idle" in text.lower()
idle(text) == Contains(lower(text), "idle")

\* the state of the loop before the first response
NoStatuses ==
  [agent_first_order |-> <<>>, agent_statuses |-> <<>>,
   delivered_segments |-> <<>>, delivered_seen |-> FALSE]

\* variant: a text is dropped when the sender has reported it at any time
Collect_DropSeen(st, name, text) ==
  LET known == name \in DOMAIN st.agent_statuses
      olds  == IF known THEN st.agent_statuses[name] ELSE <<>>
      news  == IF \E k \in 1..Len(olds) : olds[k] = text
               THEN olds ELSE Append(olds, text)
  IN [st EXCEPT
        !.agent_first_order = IF known THEN @ ELSE Append(@, name),
        !.agent_statuses =
           [n \in DOMAIN st.agent_statuses \cup {name} |->
              IF n = name THEN news ELSE st.agent_statuses[n]]]

\* lines 289-294: file a non-delivered text under its sender, unless it
\* repeats the sender's latest text
Collect(st, name, text) ==
  LET known == name \in DOMAIN st.agent_statuses
      olds  == IF known THEN st.agent_statuses[name] ELSE <<>>
      news  == IF olds = <<>> \/ olds[Len(olds)] # text
               THEN Append(olds, text) ELSE olds
  IN [st EXCEPT
        !.agent_first_order = IF known THEN @ ELSE Append(@, name),
        !.agent_statuses =
           [n \in DOMAIN st.agent_statuses \cup {name} |->
              IF n = name THEN news ELSE st.agent_statuses[n]]]

\* variant: the delivered test comes before the idle test
Absorb_DeliveredFirst(st, response) ==
  IF ~response.ok THEN st
  ELSE LET name == IF response.name = None THEN "Unknown" ELSE response.name
           text == first_text(response.parts)
       IN IF text = "" THEN st
          ELSE IF delivered(text)
          THEN [st EXCEPT !.delivered_seen = TRUE,
                          !.delivered_segments = Append(@, name \o ": " \o text)]
          ELSE IF idle(text) THEN st
          ELSE Collect(st, name, text)

\* one pass of the loop body over a response
Absorb(st, response) ==
  IF ~response.ok THEN st
  ELSE LET name == IF response.name = None THEN "Unknown" ELSE response.name
           text == first_text(response.parts)
       IN IF text = "" \/ idle(text) THEN st
          ELSE IF delivered(text)
          THEN [st EXCEPT !.delivered_seen = TRUE,
                          !.delivered_segments = Append(@, name \o ": " \o text)]
          ELSE Collect(st, name, text)

RECURSIVE AbsorbAll(_, _)
AbsorbAll(st, rs) ==
  IF rs = <<>> THEN st ELSE AbsorbAll(Absorb(st, Head(rs)), Tail(rs))

\* variant: the delivered segments are placed before the per-sender segments
Compose_DeliveredFirst(st) ==
  IF st.agent_first_order = <<>> /\ st.delivered_segments = <<>>
  THEN "No non-idle status updates received."
  ELSE LET segments ==
             st.delivered_segments \o
             [k \in 1..Len(st.agent_first_order) |->
                st.agent_first_order[k] \o ": "
                  \o join(", ", st.agent_statuses[st.agent_first_order[k]])]
       IN "Order status updates: " \o join(" | ", segments)
            \o (IF st.delivered_seen THEN " (final)" ELSE "")

\* lines 299-312: the status line of the collected segments
Compose(st) ==
  IF st.agent_first_order = <<>> /\ st.delivered_segments = <<>>
  THEN "No non-idle status updates received."
  ELSE LET segments ==
             [k \in 1..Len(st.agent_first_order) |->
                st.agent_first_order[k] \o ": "
                  \o join(", ", st.agent_statuses[st.agent_first_order[k]])]
             \o st.delivered_segments
       IN "Order status updates: " \o join(" | ", segments)
            \o (IF st.delivered_seen THEN " (final)" ELSE "")

\* _summarize_a2a_responses
summarize_a2a_responses(rs) == Compose(AbsorbAll(NoStatuses, rs))

\* ------------------------------------------------------- streamed events
\* the first position of s at which key occurs, 0 when it does not occur
Find(s, key) ==
  LET hits == {i \in 1..(Len(s) - Len(key) + 1) : SubSeq(s, i, i + Len(key) - 1) = key}
  IN IF hits = {} THEN 0 ELSE Least(hits)

\* s.split(sep, 1)
split1(s, sep) ==
  IF Find(s, sep) = 0 THEN <<s>>
  ELSE <<SubSeq(s, 1, Find(s, sep) - 1),
         SubSeq(s, Find(s, sep) + Len(sep), Len(s))>>

\* s.replace(old, "")
RECURSIVE remove(_, _)
remove(s, old) ==
  IF Find(s, old) = 0 THEN s
  ELSE SubSeq(s, 1, Find(s, old) - 1)
         \o remove(SubSeq(s, Find(s, old) + Len(old), Len(s)), old)

\* the characters of s from position i on up to the next apostrophe
Unquoted(s, i) ==
  LET stop == {j \in i..Len(s) : Char(s, j) = "'"}
  IN IF stop = {} THEN SubSeq(s, i, Len(s)) ELSE SubSeq(s, i, Least(stop) - 1)

\* re.search(prefix + "([^']+)" + suffix, s): group 1, None without a match
quoted(s, prefix, suffix) ==
  LET hits == {i \in 1..(Len(s) - Len(prefix) + 1) :
                 /\ SubSeq(s, i, i + Len(prefix) - 1) = prefix
                 /\ LET body == Unquoted(s, i + Len(prefix))
                        next == i + Len(prefix) + Len(body)
                    IN /\ body # ""
                       /\ SubSeq(s, next, next + Len(suffix) - 1) = suffix}
  IN IF hits = {} THEN None ELSE Unquoted(s, Least(hits) + Len(prefix))

HexChars == CharsOf(Digits) \cup CharsOf("abcdef")

\* [0-9a-f]{8}-[0-9a-f]{4}-[0-9a-f]{4}-[0-9a-f]{4}-[0-9a-f]{12} matches at i
DashedAt(s, i) ==
  /\ i + 35 <= Len(s)
  /\ \A k \in 0..35 :
       IF k \in {8, 13, 18, 23} THEN Char(s, i + k) = "-"
       ELSE Char(s, i + k) \in HexChars

\* lines 369-373: the order id of a message, "unknown" without one
event_order_id(message) ==
  LET low    == lower(message)
      dashed == {i \in 1..Len(low) : DashedAt(low, i)}
      plain  == {i \in 1..Len(low) :
                   /\ i + 31 <= Len(low)
                   /\ \A k \in 0..31 : Char(low, i + k) \in HexChars}
  IN IF dashed # {} THEN SubSeq(low, Least(dashed), Least(dashed) + 35)
     ELSE IF plain # {} THEN SubSeq(low, Least(plain), Least(plain) + 31)
     ELSE "unknown"

\* repr(s) of a str, inside the quotes: backslash, apostrophe and newline
\* are escaped
RECURSIVE escaped(_)
escaped(s) ==
  IF Len(s) = 0 THEN ""
  ELSE IF Len(s) = 1
  THEN CASE s = "\\" -> "\\\\"
         [] s = "'" -> "\\'"
         [] s = "\n" -> "\\n"
         [] OTHER -> s
  ELSE escaped(SubSeq(s, 1, Len(s) \div 2))
         \o escaped(SubSeq(s, Len(s) \div 2 + 1, Len(s)))

\* the same with the apostrophe left alone, for a str shown in double quotes
RECURSIVE escaped_dq(_)
escaped_dq(s) ==
  IF Len(s) = 0 THEN ""
  ELSE IF Len(s) = 1
  THEN CASE s = "\\" -> "\\\\"
         [] s = "\n" -> "\\n"
         [] OTHER -> s
  ELSE escaped_dq(SubSeq(s, 1, Len(s) \div 2))
         \o escaped_dq(SubSeq(s, Len(s) \div 2 + 1, Len(s)))

\* repr(s) of a str: in apostrophes, unless s has an apostrophe and no
\* double quote, in which case it is shown in double quotes
py_repr(s) ==
  IF Contains(s, "'") /\ ~Contains(s, "\"")
  THEN "\"" \o escaped_dq(s) \o "\""
  ELSE "'" \o escaped(s) \o "'"

\* str(response): the fields of the message that the parser looks for, each
\* value shown by its repr
str_response(response) ==
  "root=SendMessageSuccessResponse(result=Message(kind='message', metadata="
    \o (IF response.name = None THEN "None"
        ELSE "{'name': " \o py_repr(response.name) \o "}")
    \o ", parts=[Part(root=TextPart(kind='text', metadata=None, text="
    \o py_repr(IF response.parts = <<>> THEN "" ELSE response.parts[1])
    \o "))], role=<Role.agent: 'agent'>))"

\* _parse_order_event: the event of a response in a one-element sequence,
\* the empty sequence (None) when the text does not have the form
\* "STATE | Sender -> Receiver: Message"; the timestamp is left out
parse_order_event(response) ==
  LET response_str == str_response(response)
      sender_raw   == quoted(response_str, "metadata={'name': '", "'}")
      sender       == IF sender_raw = None THEN "Unknown"
                      ELSE IF Contains(sender_raw, "Shipping")
                              \/ Contains(sender_raw, "Shipper")
                      THEN "Shipper"
                      ELSE remove(sender_raw, " agent")
      text         == quoted(response_str, "text='", "'")
  IN IF ~response.ok \/ text = None THEN <<>>
     ELSE LET parts == split1(text, "|")
          IN IF Len(parts) # 2 THEN <<>>
             ELSE LET arrow_parts == split1(strip(parts[2]), "->")
                  IN IF Len(arrow_parts) # 2 THEN <<>>
                     ELSE LET recv_parts == split1(strip(arrow_parts[2]), ":")
                          IN IF Len(recv_parts) # 2 THEN <<>>
                             ELSE <<[order_id |-> event_order_id(strip(recv_parts[2])),
                                     sender   |-> sender,
                                     receiver |-> strip(recv_parts[1]),
                                     message  |-> strip(recv_parts[2]),
                                     state    |-> strip(parts[1])]>>

\* ----------------------------------------------------------- create_order
max_retries == 3
base_delay == 2

\* the decimal digits of a natural number: str(n)
RECURSIVE str_int(_)
str_int(n) ==
  IF n < 10 THEN Char(Digits, n + 1)
  ELSE str_int(n \div 10) \o Char(Digits, (n % 10) + 1)

\* str(x) of a float with an integral value
str_float(n) == str_int(n) \o ".0"

RECURSIVE Pow2(_)
Pow2(n) == IF n = 0 THEN 1 ELSE 2 * Pow2(n - 1)

RECURSIVE Sum(_)
Sum(s) == IF s = <<>> THEN 0 ELSE Head(s) + Sum(Tail(s))

\* the inputs of a call
Modes      == {"aggregate", "streaming"}
Transports == {"SLIM", "NATS"}              \* DEFAULT_MESSAGE_TRANSPORT
Farms      == {"", "  ", " Tatooine ", "tatooine farm"}
Quantities == {0 - 1, 0, 10}
Prices     == {0 - 2, 0, 5}                 \* floats with an integral value

StreamOrderId == "6f1d2c3b-4a5e-4f60-8a9b-0c1d2e3f4a5b"   \* str(uuid4())

\* what the participants send back: the replies of a conversation that
\* runs to delivery, with the idle replies that accompany them
AgentName(a) ==
  CASE a = "Farm" -> "Tatooine Farm agent"
    [] a = "Shipper" -> "Shipping agent"
    [] a = "Accountant" -> "Accountant agent"

Answer(a, raw) == Response(TRUE, AgentName(a), <<ReplyOf[a][raw]>>)

Handover  == ReplyOf["Farm"][InitMessage]
Customs   == ReplyOf["Shipper"][Handover]
Payment   == ReplyOf["Accountant"][Customs]
Delivery  == ReplyOf["Shipper"][Payment]

DeliveredRun ==
  <<Answer("Shipper", InitMessage), Answer("Farm", InitMessage),
    Answer("Accountant", InitMessage), Answer("Shipper", Handover),
    Answer("Accountant", Customs), Answer("Farm", Customs),
    Answer("Shipper", Payment)>>

\* the response lists start_groupchat returns in the model: nothing, a
\* conversation cut short by the timeout, and a delivered one
GroupchatOutcomes ==
  {<<>>, SubSeq(DeliveredRun, 1, 4), DeliveredRun}

\* the conversation the streaming call starts, which carries its own order id
StreamRequest  == RequestText(StreamOrderId, "5.0", "10")
StreamHandover == Reply("Farm", StreamRequest, NewUuid)
StreamCustoms  == Reply("Shipper", StreamHandover, NewUuid)
StreamPayment  == Reply("Accountant", StreamCustoms, NewUuid)
StreamDelivery == Reply("Shipper", StreamPayment, NewUuid)

\* a message in the wire format whose narrative has an apostrophe
Apostrophe ==
  Response(TRUE, "Shipping agent",
           <<"DELIVERED | Shipper -> Supervisor: It's delivered">>)

\* the responses a streaming conversation produces, one at a time: the
\* transitions of a run to delivery, an idle reply, and replies outside the
\* agents' vocabulary
StreamPool ==
  {Response(TRUE, AgentName("Farm"), <<StreamHandover>>),
   Response(TRUE, AgentName("Shipper"), <<StreamCustoms>>),
   Response(TRUE, AgentName("Shipper"), <<StreamDelivery>>),
   Response(TRUE, AgentName("Accountant"), <<Reply("Accountant", StreamRequest, NewUuid)>>),
   Response(TRUE, None, <<"no status here">>),
   Response(TRUE, "Shipping agent", <<"DELIVERED | Shipper -> Supervisor: done">>),
   Response(TRUE, "Travel agent Smith", <<"CUSTOMS_CLEARANCE | Broker -> Shipper: cleared">>),
   Apostrophe}

MaxStream == 3     \* responses streamed per call

\* what a failing collaborator or language model puts in its exception
Causes == {"connection reset by peer", "secret token sk-123 rejected"}

Fatal(detail) == "HTTPException 500: " \o detail

OrderSide == <<chat, read, responses, summary, codec, clock, StoreSide>>

\* variant: the farm is checked before price and quantity, and a blank farm
\* is taken as given
Validate_FarmFirst(farm, quantity, price) ==
  IF farm = "" THEN "No farm provided. Please specify a farm."
  ELSE IF price <= 0 \/ quantity <= 0
  THEN "Price and quantity must both be greater than zero."
  ELSE None

\* lines 63-69 / 165-173: the validation message, None for a valid input
Validate(farm, quantity, price) ==
  IF price <= 0 \/ quantity <= 0
  THEN "Price and quantity must both be greater than zero."
  ELSE IF lower(strip(farm)) = ""
  THEN "No farm provided. Please specify a farm."
  ELSE None

\* str(e) of the exception the call raises: the message of a ValueError,
\* "<status_code>: <detail>" of an HTTPException
str_exception(err) ==
  IF err = "ValueError"
  THEN "Only SLIM transport is supported for logistic agents."
  ELSE SubSeq(err, Len("HTTPException ") + 1, Len(err))

\* graph.py 170-173 / 302-305: the message of the node for an exception
issue(text) == "I encountered an issue creating the order: " \o text

\* str(event): the dict as the node puts it in a message (the model's events
\* carry no timestamp)
str_event(e) ==
  "{'order_id': " \o py_repr(e.order_id) \o ", 'sender': " \o py_repr(e.sender)
    \o ", 'receiver': " \o py_repr(e.receiver) \o ", 'message': "
    \o py_repr(e.message) \o ", 'state': " \o py_repr(e.state) \o "}"

\* variant: the price as str() shows it
format_2f_AsStr(n) == str_float(n)

\* f"{price:.2f}" of a float with an integral value
format_2f(n) == str_int(n) \o ".00"

\* graph.py 270-300: the sentence the formatting prompt prescribes, which the
\* language model is taken to return
confirmation(order_id, farm, quantity, price) ==
  "Order " \o (IF order_id = None THEN "unknown" ELSE order_id) \o " from "
    \o title(farm) \o " for " \o str_int(quantity) \o " units at $"
    \o format_2f(price) \o " has been successfully delivered."

\* graph.py 133-139 / 256-267 / 302-305: what the node around the call does
\* with a step of the call that takes it from old to new: every item yielded
\* is passed on as str(item), a DELIVERED event sets delivered and order_id,
\* an exception becomes the issue message; a result of the aggregate call
\* that mentions an error or a failure becomes a fixed apology
Observe(old, new) ==
  LET items     == SubSeq(new.out, Len(old.out) + 1, Len(new.out))
      events    == SubSeq(new.events, Len(old.events) + 1, Len(new.events))
      texts     == items \o [i \in 1..Len(events) |-> str_event(events[i])]
      dels      == SelectSeq(events, LAMBDA e : e.state = "DELIVERED")
      seen_del  == old.delivered \/ dels # <<>>
      captured  == IF dels = <<>> THEN old.order_id ELSE dels[Len(dels)].order_id
  IN IF new.mode = "streaming"
     THEN [new EXCEPT
             !.shown = @ \o texts \o (IF new.pc = "raised"
                                      THEN <<issue(str_exception(new.err))>>
                                      ELSE <<>>),
             !.delivered = seen_del,
             !.order_id = captured,
             !.node = CASE new.pc = "raised" -> "done"
                        [] new.pc = "returned" ->
                             IF seen_del /\ new.out \o new.events # <<>>
                             THEN "formatting" ELSE "done"
                        [] OTHER -> "consuming"]
     ELSE [new EXCEPT
             !.shown = CASE new.pc = "raised" -> <<issue(str_exception(new.err))>>
                         [] new.pc = "returned"
                              /\ \/ Contains(lower(new.out[1]), "error")
                                 \/ Contains(lower(new.out[1]), "failed") ->
                              <<"I encountered an issue creating the order. Please try again later.">>
                         [] OTHER -> <<>>,
             !.node = CASE new.pc = "raised" -> "done"
                        [] new.pc = "returned" ->
                             IF \/ Contains(lower(new.out[1]), "error")
                                \/ Contains(lower(new.out[1]), "failed")
                             THEN "done" ELSE "formatting"
                        [] OTHER -> "consuming"]

\* create_order / create_order_streaming up to the first await: the transport
\* check, the validation, and the call of factory.create_client
CallCreateOrder(mode, transport, farm, quantity, price, helpdesk) ==
  /\ call.pc = "idle"
  /\ LET started == [NoCall EXCEPT !.mode = mode, !.transport = transport,
                                   !.farm = lower(strip(farm)),
                                   !.farm_arg = farm,
                                   !.quantity = quantity, !.price = price,
                                   !.helpdesk = helpdesk]
         message == Validate(farm, quantity, price)
     IN call' = Observe(call,
          IF transport # "SLIM"
          THEN [started EXCEPT !.pc = "raised", !.farm = farm,
                               !.err = "ValueError"]
          ELSE IF message # None
          THEN [started EXCEPT !.pc = "returned", !.out = <<message>>]
          ELSE [started EXCEPT !.pc = "create_client", !.clients = 1])
  /\ UNCHANGED OrderSide

CreateFailed ==
  Fatal("Internal server error: failed to create A2A client or message request")

\* variant: the first event is attributed to the farm that takes the order
initial_message_FromFarm(order_id, price, quantity) ==
  [order_id |-> order_id,
   sender   |-> "Tatooine Farm",
   receiver |-> "Shipper",
   message  |-> "Create an order " \o order_id \o " with price "
                  \o str_float(price) \o " and quantity " \o str_int(quantity) \o ".",
   state    |-> "RECEIVED_ORDER"]

\* lines 220-228: the event the streaming call yields first (without the
\* timestamp)
initial_message(order_id, price, quantity) ==
  [order_id |-> order_id,
   sender   |-> "Supervisor",
   receiver |-> "Tatooine Farm",
   message  |-> "Create an order " \o order_id \o " with price "
                  \o str_float(price) \o " and quantity " \o str_int(quantity) \o ".",
   state    |-> "RECEIVED_ORDER"]

\* the number of recipients of the broadcast: the three agents, and the
\* helpdesk when the aggregate call has it enabled
Recipients(mode, helpdesk) == IF mode = "aggregate" /\ helpdesk THEN 4 ELSE 3

\* variant: a failed client creation is slept on and tried once more
ClientCreated_Retrying(ok) ==
  /\ call.pc = "create_client"
  /\ \E cause \in Causes : call' = Observe(call,
       IF ~ok /\ call.clients < 2
       THEN [call EXCEPT !.clients = @ + 1, !.slept = Append(@, base_delay),
                         !.logged = Append(@, cause)]
       ELSE IF ~ok
       THEN [call EXCEPT !.pc = "raised", !.err = CreateFailed,
                         !.logged = Append(@, cause)]
       ELSE IF call.mode = "aggregate"
       THEN [call EXCEPT !.pc = "groupchat", !.chats = 1, !.session = TRUE,
                         !.recipients = Recipients(call.mode, call.helpdesk)]
       ELSE [call EXCEPT !.pc = "yielded", !.session = TRUE,
                         !.recipients = Recipients(call.mode, call.helpdesk),
                         !.events = <<initial_message(StreamOrderId, call.price,
                                                      call.quantity)>>])
  /\ UNCHANGED OrderSide

\* lines 71-98 / 175-204: factory.create_client and the construction of the
\* request complete (ok) or raise; on success the aggregate call goes on to
\* its first start_groupchat, the streaming call yields the initial event
ClientCreated(ok) ==
  /\ call.pc = "create_client"
  /\ \E cause \in Causes : call' = Observe(call,
       IF ~ok
       THEN [call EXCEPT !.pc = "raised", !.err = CreateFailed,
                         !.logged = Append(@, cause)]
       ELSE IF call.mode = "aggregate"
       THEN [call EXCEPT !.pc = "groupchat", !.chats = 1, !.session = TRUE,
                         !.recipients = Recipients(call.mode, call.helpdesk)]
       ELSE [call EXCEPT !.pc = "yielded", !.session = TRUE,
                         !.recipients = Recipients(call.mode, call.helpdesk),
                         !.events = <<initial_message(StreamOrderId, call.price,
                                                      call.quantity)>>])
  /\ UNCHANGED OrderSide

\* variant: the conversation is started inside the retry loop of create_order
StreamStart_InRetryLoop ==
  /\ call.pc = "yielded"
  /\ call' = Observe(call, [call EXCEPT !.pc = "groupchat", !.chats = 1])
  /\ UNCHANGED OrderSide

\* lines 230-236: the generator is resumed after the initial event and calls
\* client.start_streaming_groupchat
StreamStart ==
  /\ call.pc = "yielded"
  /\ call' = Observe(call, [call EXCEPT !.pc = "stream", !.chats = 1])
  /\ UNCHANGED OrderSide

\* variant: one more attempt, after a third sleep of 8 seconds
GroupchatDone_FourAttempts(ok, rs) ==
  /\ call.pc = "groupchat"
  /\ \E cause \in Causes : call' = Observe(call,
       IF ok
       THEN [call EXCEPT !.pc = "returned", !.outcomes = Append(@, TRUE),
                         !.out = <<summarize_a2a_responses(rs)>>]
       ELSE IF call.attempt < max_retries
       THEN [call EXCEPT !.pc = "sleep", !.outcomes = Append(@, FALSE),
               !.logged = Append(@, cause)]
       ELSE [call EXCEPT !.pc = "raised", !.outcomes = Append(@, FALSE),
               !.logged = Append(@, cause),
               !.err = Fatal("Internal server error: failed to process order after retries")])
  /\ UNCHANGED OrderSide

\* lines 119-147: an attempt of client.start_groupchat returns the responses
\* rs (ok) or raises; a failure is followed by a sleep unless it was the last
\* attempt (outcomes is the history of the attempts)
GroupchatDone(ok, rs) ==
  /\ call.pc = "groupchat"
  /\ \E cause \in Causes : call' = Observe(call,
       IF ok
       THEN [call EXCEPT !.pc = "returned", !.outcomes = Append(@, TRUE),
                         !.out = <<summarize_a2a_responses(rs)>>]
       ELSE IF call.attempt < max_retries - 1
       THEN [call EXCEPT !.pc = "sleep", !.outcomes = Append(@, FALSE),
               !.logged = Append(@, cause)]
       ELSE [call EXCEPT !.pc = "raised", !.outcomes = Append(@, FALSE),
               !.logged = Append(@, cause),
               !.err = Fatal("Internal server error: failed to process order after retries")])
  /\ UNCHANGED OrderSide

\* variant: the same delay before every retry
SleepDone_ConstantDelay ==
  /\ call.pc = "sleep"
  /\ call' = Observe(call, [call EXCEPT !.pc = "groupchat",
                          !.slept = Append(@, base_delay),
                          !.attempt = @ + 1,
                          !.chats = @ + 1])
  /\ UNCHANGED OrderSide

\* lines 136-140: asyncio.sleep(base_delay * 2 ** attempt) is over, the next
\* attempt starts
SleepDone ==
  /\ call.pc = "sleep"
  /\ call' = Observe(call, [call EXCEPT !.pc = "groupchat",
                          !.slept = Append(@, base_delay * Pow2(call.attempt)),
                          !.attempt = @ + 1,
                          !.chats = @ + 1])
  /\ UNCHANGED OrderSide

\* lines 237-247: the stream delivers a response; unless it is idle or does
\* not parse, its event is yielded after a sleep of one second
StreamResponse(response) ==
  /\ call.pc = "stream"
  /\ call.streamed < MaxStream
  /\ LET event == parse_order_event(response)
     IN call' = Observe(call,
          IF ~Contains(lower(str_response(response)), "idle") /\ event # <<>>
          THEN [call EXCEPT !.streamed = @ + 1, !.slept = Append(@, 1),
                            !.replies = Append(@, response),
                            !.events = @ \o event]
          ELSE [call EXCEPT !.streamed = @ + 1,
                            !.replies = Append(@, response)])
  /\ UNCHANGED OrderSide

\* the stream ends: the generator returns
StreamEnd ==
  /\ call.pc = "stream"
  /\ call' = Observe(call, [call EXCEPT !.pc = "returned"])
  /\ UNCHANGED OrderSide

\* variant: the detail of the fatal error quotes the exception of the stream
StreamFail_WithCause ==
  /\ call.pc = "stream"
  /\ \E cause \in Causes :
       call' = Observe(call, [call EXCEPT !.pc = "raised",
                 !.logged = Append(@, cause),
                 !.err = Fatal("Internal server error: " \o cause)])
  /\ UNCHANGED OrderSide

\* lines 248-250: the stream raises
StreamFail ==
  /\ call.pc = "stream"
  /\ \E cause \in Causes :
       call' = Observe(call, [call EXCEPT !.pc = "raised",
                 !.logged = Append(@, cause),
                 !.err = Fatal("Internal server error: failed to process order")])
  /\ UNCHANGED OrderSide

\* graph.py 141-168 / 270-300: the language model formats the outcome (ok)
\* or raises; the streaming node yields the confirmation of the delivery, the
\* aggregate node returns the formatted result, taken to be the result itself
FormatDone(ok, cause) ==
  /\ call.node = "formatting"
  /\ call' =
       [call EXCEPT
          !.node = "done",
          !.formatted = IF ok THEN "ok" ELSE "failed",
          !.shown =
            IF ~ok THEN Append(@, issue(cause))
            ELSE IF call.mode = "streaming"
            THEN Append(@, strip(confirmation(call.order_id, call.farm_arg,
                                              call.quantity, call.price)))
            ELSE <<strip(call.out[1])>>]
  /\ UNCHANGED OrderSide

\* the consumer of the streaming node stops iterating, or its task is
\* cancelled: the generators stay suspended where they are, and no handler
\* of the call runs (GeneratorExit and CancelledError are not Exceptions)
Abandon ==
  /\ call.mode = "streaming"
  /\ call.node \in {"consuming", "formatting"}
  /\ call' = [call EXCEPT !.pc = "cancelled", !.node = "abandoned"]
  /\ UNCHANGED OrderSide

\* tools.py 100-102: the transport deletes the session of a conversation that
\* is over; nothing in create_order or create_order_streaming asks for it
delete_session ==
  /\ call.session
  /\ call.chats > 0
  /\ call.pc \in {"returned", "raised", "cancelled"}
  /\ call' = [call EXCEPT !.session = FALSE]
  /\ UNCHANGED OrderSide

\* the caller has the outcome; the next call can be made
Forget ==
  /\ call.node \in {"done", "abandoned"}
  /\ call' = NoCall
  /\ UNCHANGED OrderSide

OrderNext ==
  \/ \E mode \in Modes, transport \in Transports, farm \in Farms,
        quantity \in Quantities, price \in Prices, helpdesk \in BOOLEAN :
       CallCreateOrder(mode, transport, farm, quantity, price, helpdesk)
  \/ \E ok \in BOOLEAN : ClientCreated(ok)
  \/ \E ok \in BOOLEAN, rs \in GroupchatOutcomes : GroupchatDone(ok, rs)
  \/ SleepDone
  \/ StreamStart
  \/ \E response \in StreamPool : StreamResponse(response)
  \/ StreamEnd
  \/ StreamFail
  \/ \E ok \in BOOLEAN, cause \in Causes : FormatDone(ok, cause)
  \/ Abandon
  \/ delete_session
  \/ Forget

OrderSpec == Init /\ [][OrderNext]_vars

\* --------------------------------------------- the status line on its own
MaxReplies == 4    \* responses in a list

\* the part texts of the responses by kind
IdleTexts      == {"IDLE", "Bridle path, Delivered"}     \* "idle", any case, anywhere
DeliveredTexts == {"DELIVERED | Shipper -> Supervisor: done"}   \* the word "delivered"

\* a response without a name whose first part is blank, and a malformed one
Anonymous == Response(TRUE, None, <<" ", " m2 ">>)
Malformed == Response(FALSE, "Farm", <<"m2">>)

\* the responses of the lists: each sender with an idle text, two plain
\* texts and the delivered text
ResponsePool ==
  {Response(TRUE, "Farm", <<t>>) :
     t \in {"IDLE", "HANDOVER_TO_SHIPPER | Farm -> Shipper: m1", "m2"} \cup DeliveredTexts}
    \cup {Response(TRUE, "Shipper", <<t>>) :
            t \in {"Bridle path, Delivered", "m2", "UNDELIVERED"} \cup DeliveredTexts}
    \cup {Anonymous, Malformed}

ResponseLists == UNION {[1..n -> ResponsePool] : n \in 0..MaxReplies}

\* _summarize_a2a_responses(responses)
Summarize ==
  /\ summary = None
  /\ summary' = summarize_a2a_responses(responses)
  /\ UNCHANGED <<responses, call, chat, read, codec, clock, StoreSide>>

\* the state before a list of responses is summarized
SummaryInit ==
  /\ ref = [h \in Holders |-> None]
  /\ heap = [h \in Holders |-> <<>>]
  /\ order_seq = 0
  /\ new_orders = <<>>
  /\ locked = FALSE
  /\ lockq = <<>>
  /\ pc = [t \in Tasks |-> "idle"]
  /\ arg = [t \in Tasks |-> NoArg]
  /\ ret = [t \in Tasks |-> NoRet]
  /\ ever = {}
  /\ seen = [t \in Tasks |-> [list |-> <<>>, n |-> 0]]
  /\ snap = [c \in Clients |-> None]
  /\ chat = <<>>
  /\ read = [a \in Participants |-> 0]
  /\ call = NoCall
  /\ responses \in ResponseLists
  /\ summary = None
  /\ codec = NoCodec
  /\ clock = NoClock

SummaryNext == Summarize

SummarySpec == SummaryInit /\ [][SummaryNext]_vars

\* ------------------------------------------------- the codec on its own
\* the texts given to extract_status and ensure_order_id
CodecMessages ==
  {"",
   "nothing to report",
   "delivered",
   "DELIVERED | Shipper -> Supervisor: Order 42 delivered successfully",
   "it was DELIVERED after RECEIVED_ORDER",
   "STATUS_UNKNOWN, then PAYMENT_COMPLETE, then CUSTOMS_CLEARANCE",
   "RECEIVED_ORDER | Supervisor -> Tatooine Farm: Create an order 7f-3a with price 5.0",
   "reORDER\t x9, order y1",
   "Orderly order  ",
   "order - HANDOVER_TO_SHIPPER"}

CodecFallbacks == {None, "", "fb-1"}
CodecStates ==
  {LogisticsStatus[k] : k \in 1..Len(LogisticsStatus)}
    \cup {"delivered", "IDLE", ""}
CodecDetails == {None, "", "Payment verified and captured", " Handle with care!  "}
Uuids == {NewUuid, "0b2d4f6a8c1e"}          \* uuid.uuid4().hex[:12]

\* extract_status(message)
ExtractStatus ==
  /\ codec.status = <<>>
  /\ codec' = [codec EXCEPT !.status = <<extract_status(codec.message)>>]
  /\ UNCHANGED <<chat, read, call, responses, summary, clock, StoreSide>>

\* ensure_order_id(message, fallback), with the uuid it would generate
EnsureOrderId(uuid) ==
  /\ codec.id = <<>>
  /\ codec' = [codec EXCEPT
                 !.id = <<ensure_order_id(codec.message, codec.fallback, uuid)>>]
  /\ UNCHANGED <<chat, read, call, responses, summary, clock, StoreSide>>

\* build_transition_message(order_id, sender, receiver, to_state, details)
BuildTransitionMessage ==
  /\ codec.text = <<>>
  /\ codec' = [codec EXCEPT
                 !.text = <<build_transition_message(codec.order_id, codec.sender,
                                                     codec.receiver, codec.to_state,
                                                     codec.details)>>]
  /\ UNCHANGED <<chat, read, call, responses, summary, clock, StoreSide>>

\* the state before the functions of the codec are applied to their arguments
CodecInit ==
  /\ ref = [h \in Holders |-> None]
  /\ heap = [h \in Holders |-> <<>>]
  /\ order_seq = 0
  /\ new_orders = <<>>
  /\ locked = FALSE
  /\ lockq = <<>>
  /\ pc = [t \in Tasks |-> "idle"]
  /\ arg = [t \in Tasks |-> NoArg]
  /\ ret = [t \in Tasks |-> NoRet]
  /\ ever = {}
  /\ seen = [t \in Tasks |-> [list |-> <<>>, n |-> 0]]
  /\ snap = [c \in Clients |-> None]
  /\ chat = <<>>
  /\ read = [a \in Participants |-> 0]
  /\ call = NoCall
  /\ responses = <<>>
  /\ summary = None
  /\ \E message \in CodecMessages, fallback \in CodecFallbacks,
        to_state \in CodecStates, details \in CodecDetails :
       codec = [NoCodec EXCEPT !.message = message, !.fallback = fallback,
                               !.order_id = "7f-3a", !.sender = "Shipper",
                               !.receiver = "Accountant",
                               !.to_state = to_state, !.details = details]
  /\ clock = NoClock

CodecNext ==
  \/ ExtractStatus
  \/ \E uuid \in Uuids : EnsureOrderId(uuid)
  \/ BuildTransitionMessage

CodecSpec == CodecInit /\ [][CodecNext]_vars

\* ------------------------------------------------------ OrderEvent objects
MaxClock == 3          \* instants of the wall clock
MaxEvents == 3         \* OrderEvent objects constructed

\* the timestamp argument: <<>> when left out, else the one-element list of
\* the instant the caller gives
Timestamps == {<<>>, <<2>>}

EventSide == <<chat, read, call, responses, summary, codec, StoreSide>>

\* time passes
Tick ==
  /\ clock.now < MaxClock
  /\ clock' = [clock EXCEPT !.now = clock.now + 1]
  /\ UNCHANGED EventSide

\* import of event.py: the class body runs once, and with it the expression
\* datetime.now(timezone.utc) that becomes the default of the field
ImportEvent ==
  /\ clock.default = <<>>
  /\ clock' = [clock EXCEPT !.default = <<clock.now>>]
  /\ UNCHANGED EventSide

\* OrderEvent(order_id=..., ..., state=...) with or without timestamp=given;
\* "at" is history: the instant of the construction
NewOrderEvent(given) ==
  /\ clock.default # <<>>
  /\ Len(clock.events) < MaxEvents
  /\ clock' = [clock EXCEPT
                 !.events = Append(@, [at |-> clock.now,
                                       explicit |-> given # <<>>,
                                       timestamp |-> IF given = <<>>
                                                     THEN clock.default[1]
                                                     ELSE given[1]])]
  /\ UNCHANGED EventSide

EventNext ==
  \/ Tick
  \/ ImportEvent
  \/ \E given \in Timestamps : NewOrderEvent(given)

EventSpec == Init /\ [][EventNext]_vars

\* ------------------------------------------ a message built, then decoded
\* the arguments given to build_transition_message
BuiltIds       == {"7f-3a", "42", "DELIVERED"}
BuiltSenders   == {"Shipper", "Tatooine Farm", "RECEIVED_ORDER desk"}
BuiltReceivers == {"Accountant", "Supervisor", "PAYMENT_COMPLETE"}
BuiltDetails   == CodecDetails \cup {"held after CUSTOMS_CLEARANCE"}

\* extract_status(build_transition_message(...)): "IDLE" not in None raises
ExtractBuilt ==
  /\ codec.text # <<>>
  /\ codec.status = <<>>
  /\ codec' = [codec EXCEPT
                 !.message = IF codec.text[1] = None THEN "" ELSE codec.text[1],
                 !.status = IF codec.text[1] = None THEN <<"TypeError">>
                            ELSE <<extract_status(codec.text[1])>>]
  /\ UNCHANGED <<chat, read, call, responses, summary, clock, StoreSide>>

RoundTripInit ==
  /\ ref = [h \in Holders |-> None]
  /\ heap = [h \in Holders |-> <<>>]
  /\ order_seq = 0
  /\ new_orders = <<>>
  /\ locked = FALSE
  /\ lockq = <<>>
  /\ pc = [t \in Tasks |-> "idle"]
  /\ arg = [t \in Tasks |-> NoArg]
  /\ ret = [t \in Tasks |-> NoRet]
  /\ ever = {}
  /\ seen = [t \in Tasks |-> [list |-> <<>>, n |-> 0]]
  /\ snap = [c \in Clients |-> None]
  /\ chat = <<>>
  /\ read = [a \in Participants |-> 0]
  /\ call = NoCall
  /\ responses = <<>>
  /\ summary = None
  /\ \E order_id \in BuiltIds, sender \in BuiltSenders, receiver \in BuiltReceivers,
        to_state \in CodecStates, details \in BuiltDetails :
       codec = [NoCodec EXCEPT !.order_id = order_id, !.sender = sender,
                               !.receiver = receiver,
                               !.to_state = to_state, !.details = details]
  /\ clock = NoClock

RoundTripNext ==
  \/ BuildTransitionMessage
  \/ ExtractBuilt

RoundTripSpec == RoundTripInit /\ [][RoundTripNext]_vars

\* ------------------------------------- the Farm and the Accountant alone
MaxExchange == 5       \* messages of an exchange, the first one included

\* the participants whose source is at hand
Responders == {"Farm", "Accountant"}

\* the texts an exchange can start with
ExchangeTexts ==
  {InitMessage,
   "RECEIVED_ORDER",
   "  CUSTOMS_CLEARANCE | Shipper -> Accountant: Customs cleared for ORDER\t7f-3a; documents forwarded.\n",
   "CUSTOMS_CLEARANCE",
   "CUSTOMS_CLEARANCE after RECEIVED_ORDER, oRdEr X9",
   "customs_clearance, received_order: order y1",
   "DELIVERED | Shipper -> Supervisor: Order 42 delivered successfully; closing shipment cycle.",
   "Shipper remains IDLE. No further action required.",
   "",
   "HANDOVER_TO_SHIPPER then CUSTOMS_CLEARANCE for Order 42",
   "RECEIVED_ORDER x1, then order y2",
   "CUSTOMS_CLEARANCE for order DELIVERED",
   "PAYMENT_COMPLETE | Accountant -> Shipper: Payment confirmed on order 42; preparing final delivery."}

\* variant: the node reads messages[0], the message that opened the exchange
Respond_FirstMessage(a, uuid) ==
  /\ a \in Responders
  /\ read[a] < Len(chat)
  /\ Len(chat) < MaxExchange
  /\ read' = [read EXCEPT ![a] = read[a] + 1]
  /\ chat' = Append(chat, Said(a, Reply(a, strip(chat[1].text), uuid)))
  /\ UNCHANGED <<call, responses, summary, codec, clock, StoreSide>>

\* every message is broadcast to all participants, the sender included: the
\* node of a is run on the next message and its answer goes to the channel
Respond(a, uuid) ==
  /\ a \in Responders
  /\ read[a] < Len(chat)
  /\ Len(chat) < MaxExchange
  /\ read' = [read EXCEPT ![a] = read[a] + 1]
  /\ chat' = Append(chat, Said(a, Reply(a, strip(chat[read[a] + 1].text), uuid)))
  /\ UNCHANGED <<call, responses, summary, codec, clock, StoreSide>>

\* an exchange that some text has opened
ExchangeInit ==
  /\ ref = [h \in Holders |-> None]
  /\ heap = [h \in Holders |-> <<>>]
  /\ order_seq = 0
  /\ new_orders = <<>>
  /\ locked = FALSE
  /\ lockq = <<>>
  /\ pc = [t \in Tasks |-> "idle"]
  /\ arg = [t \in Tasks |-> NoArg]
  /\ ret = [t \in Tasks |-> NoRet]
  /\ ever = {}
  /\ seen = [t \in Tasks |-> [list |-> <<>>, n |-> 0]]
  /\ snap = [c \in Clients |-> None]
  /\ \E text \in ExchangeTexts : chat = <<Said("Supervisor", text)>>
  /\ read = [a \in Participants |-> 0]
  /\ call = NoCall
  /\ responses = <<>>
  /\ summary = None
  /\ codec = NoCodec
  /\ clock = NoClock

ExchangeNext == \E a \in Responders, uuid \in Uuids : Respond(a, uuid)

ExchangeSpec == ExchangeInit /\ [][ExchangeNext]_vars

\* ------------------------------------------------------------ properties
\* task t completes a call of op in this step
Completes(t, op) == pc[t] # "done" /\ pc'[t] = "done" /\ arg'[t].op = op

\* task t has finished a call of op and still holds its result
Finished(t, op) == pc[t] = "done" /\ arg[t].op = op

\* the stream of o / whether o is a key, after the step
StreamAfter(o) == Content(Mem', o)
KnownAfter(o) == ref'[o] # None

LedgerIds == {new_orders[i][2] : i \in 1..Len(new_orders)}

\* C5 (as claimed): in every state where latest_order() has just returned, the
\* result is none only if no order_id has ever held non-empty content, and
\* otherwise it is the ledger pair with the maximum creation sequence among
\* all order_ids that have ever held non-empty content.
C5_LatestCoversEveryOrder ==
  \A t \in Mutators :
    Finished(t, "latest_order") =>
      IF ever = {} THEN ret[t].list = <<>>
      ELSE /\ ret[t].list # <<>>
           /\ \E i \in 1..Len(new_orders) : new_orders[i] = ret[t].list[1]
           /\ \A o \in ever :
                \E i \in 1..Len(new_orders) :
                  new_orders[i][2] = o /\ new_orders[i][1] <= ret[t].list[1][1]

C8_DeleteEffect ==
  [][\A t \in Mutators :
       /\ Completes(t, "delete") =>
            LET o == arg'[t].order
            IN /\ ~KnownAfter(o) /\ StreamAfter(o) = <<>>
               /\ order_seq' = order_seq /\ new_orders' = new_orders
               /\ \A p \in Orders \ {o} : StreamAfter(p) = Stream(p) /\ KnownAfter(p) = Known(p)
               /\ ~Known(o) => UNCHANGED StoreVars
       /\ Completes(t, "get") =>
            /\ ret'[t].list = Stream(arg'[t].order)
            /\ ~Known(arg'[t].order) => ret'[t].list = <<>>]_vars

\* C8 witness: latest_order() reports an order_id whose stream was deleted.
C8_Witness ==
  \E t \in Mutators :
    /\ Finished(t, "latest_order")
    /\ ret[t].list # <<>>
    /\ ~Known(ret[t].list[1][2])
    /\ \E p \in Orders : Stream(p) # <<>>

\* task t returns from a wait call on the path where changed() held
SuccessReturn(t) ==
  pc[t] \in {"idle", "acq", "notified", "reacq", "innerdone"} /\ pc'[t] = "done"

\* task t returns from a wait call through "except asyncio.TimeoutError"
TimeoutReturn(t) ==
  pc[t] \in {"spawn", "cancelled", "creacq", "timedout"} /\ pc'[t] = "done"

\* a woken waiter has re-acquired the lock and evaluated its predicate
Rechecked(t) ==
  pc[t] \in {"notified", "reacq"} /\ pc'[t] \in {"done", "innerdone", "parked"}

\* C3: a completed append turns every parked waiter into a notified one; a
\* woken waiter that re-acquires the lock returns if its last_index is below
\* the length of the stream and parks again otherwise; every waiter that
\* returns on the success path returns stream[last_index:] and the full
\* length, whatever the other waiters did, and returning leaves the store
\* unchanged.
C3_AppendWakesAllWaiters ==
  [][/\ \A t \in Mutators :
          Completes(t, "append") =>
            \A w \in EventWaiters : pc[w] = "parked" => pc'[w] = "notified"
     /\ \A w \in EventWaiters :
          /\ Rechecked(w) =>
               IF Len(Stream(arg[w].order)) > arg[w].last
               THEN pc'[w] \in {"done", "innerdone"}
               ELSE pc'[w] = "parked"
          /\ SuccessReturn(w) =>
               /\ Len(Stream(arg'[w].order)) > arg'[w].last
               /\ ret'[w].list = SubSeq(Stream(arg'[w].order), arg'[w].last + 1,
                                        Len(Stream(arg'[w].order)))
               /\ ret'[w].n = Len(Stream(arg'[w].order))
               /\ UNCHANGED StoreVars]_vars

\* C3 witness: one append has just woken both waiters, parked on the same
\* order with last_index 0 and 1; the stream now has one event.
C3_Witness ==
  /\ \E t \in Mutators : Finished(t, "append")
  /\ pc["w1"] = "notified" /\ pc["w2"] = "notified"
  /\ arg["w1"].order = arg["w2"].order
  /\ arg["w1"].last = 0 /\ arg["w2"].last = 1
  /\ Len(Stream(arg["w1"].order)) = 1

\* C4: a wait_for_events call that ends through its timeout returns exactly
\* ([], last_index), also when last_index exceeds the length of the stream,
\* and neither the expiry nor the return changes the streams, the creation
\* counter or the ledger.
C4_TimeoutEchoesLastIndex ==
  [][\A w \in EventWaiters :
       /\ TimeoutReturn(w) =>
            /\ ret'[w] = [list |-> <<>>, n |-> arg[w].last]
            /\ UNCHANGED StoreVars
       /\ (pc[w] # "cancelled" /\ pc'[w] = "cancelled") => UNCHANGED StoreVars]_vars

\* C4 witness: a call with last_index MaxLen + 1 on a stream of MaxLen events
\* returned ([], MaxLen + 1).
C4_Witness ==
  \E w \in EventWaiters :
    /\ Finished(w, "wait_for_events")
    /\ arg[w].tmo
    /\ arg[w].last = MaxLen + 1
    /\ Len(Stream(arg[w].order)) = MaxLen
    /\ ret[w] = [list |-> <<>>, n |-> MaxLen + 1]

\* C1: with appends only, the concatenation of the slices returned to a
\* consumer that chains wait_for_events calls from index 0 is at all times a
\* prefix of the stream and its length is the index the consumer holds; a
\* call that returns on the success path brings the consumer up to the whole
\* stream, a call that times out gives it nothing and keeps its index.
C1_ChainedSlicesArePrefix ==
  /\ [](LET got == seen[Consumer].list
            full == Stream(WaitOrder)
        IN /\ Len(got) <= Len(full)
           /\ got = SubSeq(full, 1, Len(got))
           /\ seen[Consumer].n = Len(got))
  /\ [][/\ SuccessReturn(Consumer) => seen'[Consumer].list = Stream(WaitOrder)
        /\ TimeoutReturn(Consumer) => seen'[Consumer] = seen[Consumer]]_vars

\* C1 witness: the consumer's call from index 1 returned the second event
\* after an earlier call had returned the first.
C1_Witness ==
  /\ Finished(Consumer, "wait_for_events")
  /\ arg[Consumer].last = 1
  /\ ret[Consumer] = [list |-> <<"ev2">>, n |-> 2]
  /\ seen[Consumer].list = <<"ev1", "ev2">>

\* C2: with appends only, a wait_for_events call is never parked while the
\* stream is longer than its last_index; a call that finds the lock free and
\* the stream longer than last_index returns (stream[last_index:], length) in
\* the same step; a call never returns on the success path while the stream
\* is not longer than last_index; and, the event loop being fair, a call
\* without timeout whose stream is longer than last_index eventually returns.
C2_BlockedWaiterReturns ==
  /\ [](\A w \in EventWaiters :
          pc[w] = "parked" => Len(Stream(arg[w].order)) <= arg[w].last)
  /\ [][\A w \in EventWaiters :
          /\ (/\ pc[w] = "idle" /\ pc'[w] # "idle" /\ LockFree
              /\ Len(Stream(arg'[w].order)) > arg'[w].last) =>
               /\ pc'[w] = "done"
               /\ ret'[w] = [list |-> SubSeq(Stream(arg'[w].order), arg'[w].last + 1,
                                             Len(Stream(arg'[w].order))),
                             n |-> Len(Stream(arg'[w].order))]
          /\ SuccessReturn(w) => Len(Stream(arg'[w].order)) > arg'[w].last]_vars
  /\ \A w \in EventWaiters :
       (pc[w] \notin {"idle", "done"} /\ ~arg[w].tmo
          /\ Len(Stream(arg[w].order)) > arg[w].last) ~> (pc[w] = "done")

\* C2 witness: a waiter without timeout, parked at last_index 1, has been
\* notified by the append that made the stream longer than 1.
C2_Witness ==
  /\ pc[Blocker] = "notified"
  /\ ~arg[Blocker].tmo
  /\ arg[Blocker].last = 1
  /\ Len(Stream(arg[Blocker].order)) = 2

\* C9: a list returned by get(o) or passed to set(o) has the content of the
\* stream of o as long as neither has been written (so two gets without a
\* mutation in between return equal lists), it is never the list object the
\* store keeps, and no append, pop or reverse the caller applies to one of its
\* lists changes any stream of the store.
C9_GetReturnsSnapshot ==
  /\ [](\A c \in Clients :
          /\ snap[c] \in Orders => Content(Mem, c) = Stream(snap[c])
          /\ \A d \in Clients :
               (snap[c] \in Orders /\ snap[c] = snap[d]) =>
                 Content(Mem, c) = Content(Mem, d)
          /\ \A o \in Orders : ref[c] # None => ref[c] # ref[o])
  /\ [][ClientWrites =>
          \A o \in Orders : StreamAfter(o) = Stream(o) /\ KnownAfter(o) = Known(o)]_vars

\* C9 witness: the caller wrote to a list it got from get or gave to set and
\* its other list still is an unmodified snapshot of the same, non-empty
\* stream, from which the written list now differs.
C9_Witness ==
  /\ snap["A"] = Dirty
  /\ snap["B"] = WaitOrder
  /\ Stream(WaitOrder) # <<>>
  /\ Content(Mem, "A") # Stream(WaitOrder)
  /\ Content(Mem, "B") = Stream(WaitOrder)

\* C10 (as claimed): wait_for_new_orders returns on its success path the
\* ledger pairs with sequence > last_seq in ledger order and the counter, on
\* timeout ([], last_seq); and a consumer chaining calls from 0 has, whenever
\* a call of its has returned and it has caught up with the counter,
\* discovered every order that has held content, its discoveries being the
\* ledger in creation order without repetition.
C10_EveryCreatedOrderDiscovered ==
  /\ [][\A w \in OrderWaiters :
          /\ SuccessReturn(w) =>
               /\ order_seq > arg'[w].last
               /\ ret'[w].list = SelectSeq(new_orders, LAMBDA pair : pair[1] > arg'[w].last)
               /\ ret'[w].n = order_seq
          /\ TimeoutReturn(w) => ret'[w] = [list |-> <<>>, n |-> arg[w].last]
          /\ ((SuccessReturn(w) \/ TimeoutReturn(w)) /\ seen'[w].n = order_seq) =>
               \A o \in ever :
                 \E i \in 1..Len(seen'[w].list) : seen'[w].list[i][2] = o]_vars
  /\ [](\A w \in OrderWaiters :
          /\ seen[w].list = SubSeq(new_orders, 1, Len(seen[w].list))
          /\ \A i, j \in 1..Len(seen[w].list) :
               seen[w].list[i] = seen[w].list[j] => i = j)

\* C11: in every reachable state the creation counter equals the number of
\* ledger entries and the i-th entry carries sequence number i; and no step
\* decreases the counter or removes or rewrites an entry of the ledger (the
\* ledger before the step is a prefix of the ledger after it).
C11_LedgerIsDenseAndAppendOnly ==
  /\ [](/\ order_seq = Len(new_orders)
        /\ \A i \in 1..Len(new_orders) : new_orders[i][1] = i)
  /\ [][/\ order_seq' >= order_seq
        /\ Len(new_orders') >= Len(new_orders)
        /\ SubSeq(new_orders', 1, Len(new_orders)) = new_orders]_vars

\* C11 witness: a delete of a recorded order has completed with two entries
\* in the ledger, the deleted order among them.
C11_Witness ==
  \E t \in Mutators :
    /\ Finished(t, "delete")
    /\ ~Known(arg[t].order)
    /\ arg[t].order \in LedgerIds
    /\ Len(new_orders) = 2
    /\ order_seq = 2

\* the tasks that hold the lock while suspended
Holding == {t \in Tasks : pc[t] \in {"spawn", "innerdone", "timedout"}}

\* the tasks that wait for the lock
Queued == {t \in Tasks : pc[t] \in {"acq", "reacq", "creacq"}}

\* C12: the lock is held by at most one task, and held exactly while that
\* task is inside its critical section (a parked, notified, cancelled,
\* finished or idle task never holds it: every exit path, the timeout path
\* included, has released it); the tasks waiting for the lock are exactly
\* the ones in its queue; and every set, get, append, delete or latest_order
\* call that had to wait for the lock eventually completes, whatever the
\* waiters do.
C12_LockReleasedAndMutatorsProgress ==
  /\ [](/\ Cardinality(Holding) = IF locked THEN 1 ELSE 0
        /\ Queued = {lockq[i] : i \in 1..Len(lockq)}
        /\ \A i, j \in 1..Len(lockq) : lockq[i] = lockq[j] => i = j)
  /\ \A t \in Mutators : (pc[t] = "acq") ~> (pc[t] = "done")

\* C12 witness: a mutator waits for the lock behind a waiter that holds it,
\* while another waiter is parked.
C12_Witness ==
  \E t \in Mutators, u, w \in Tasks \ Mutators :
    /\ pc[t] = "acq"
    /\ u \in Holding
    /\ pc[w] = "parked"
    /\ locked

\* the status messages of the conversation that are not idle, the opening
\* message left out, as <<status, sender>> pairs in arrival order
StatusUpdates ==
  LET kept == SelectSeq(chat, LAMBDA m : m.name # "Supervisor" /\ ~IsIdle(m.text))
  IN [i \in 1..Len(kept) |->
        <<SubSeq(kept[i].text, 1, Least({j \in 1..Len(kept[i].text) :
                                           Char(kept[i].text, j) = " "}) - 1),
          kept[i].name>>]

Progression ==
  <<<<"HANDOVER_TO_SHIPPER", "Farm">>, <<"CUSTOMS_CLEARANCE", "Shipper">>,
    <<"PAYMENT_COMPLETE", "Accountant">>, <<"DELIVERED", "Shipper">>>>

InvalidInput ==
  /\ call.pc # "idle"
  /\ lower(strip(call.farm)) = "" \/ call.quantity <= 0 \/ call.price <= 0

\* the call has ended with one validation message as its only result and
\* without touching a collaborator
Rejected ==
  /\ call.pc = "returned"
  /\ call.err = "none"
  /\ Len(call.out) = 1
  /\ call.out[1] \in {"Price and quantity must both be greater than zero.",
                      "No farm provided. Please specify a farm."}
  /\ call.quantity > 0 /\ call.price > 0
       => call.out[1] = "No farm provided. Please specify a farm."
  /\ call.events = <<>>
  /\ call.clients = 0
  /\ call.chats = 0

RetriesExhausted ==
  Fatal("Internal server error: failed to process order after retries")

\* C15: in aggregate mode start_groupchat is invoked at most 3 times per
\* call and never after an invocation has succeeded: only the last attempt
\* made can be a success, and a call that returns a summary has made as many
\* invocations as the index of its successful attempt, having slept 2 s
\* before the second and 4 s before the third (6 s when the third attempt
\* is the successful one); a call whose three attempts all failed has raised
\* the fatal error and returned nothing.
C15_AttemptsStopAtFirstSuccess ==
  call.mode = "aggregate" /\ call.transport = "SLIM" =>
    /\ call.chats <= 3
    /\ \A i \in 1..Len(call.outcomes) : call.outcomes[i] => i = Len(call.outcomes)
    /\ call.chats = Len(call.outcomes) + (IF call.pc = "groupchat" THEN 1 ELSE 0)
    /\ call.pc = "returned" /\ call.outcomes # <<>> =>
         /\ call.outcomes[Len(call.outcomes)]
         /\ call.chats = Len(call.outcomes)
         /\ Len(call.out) = 1
         /\ call.err = "none"
         /\ call.chats = 3 => Sum(call.slept) >= 6
    /\ Len(call.outcomes) = 3 /\ ~call.outcomes[3] =>
         /\ call.pc = "raised"
         /\ call.err = RetriesExhausted
         /\ call.out = <<>>
    /\ call.err = RetriesExhausted => call.outcomes = <<FALSE, FALSE, FALSE>>

\* C15 witness: two failed attempts, then a successful third one; the
\* summary of a delivered conversation has been returned after 2 s + 4 s of
\* backoff.
C15_Witness ==
  /\ call.mode = "aggregate"
  /\ call.pc = "returned"
  /\ call.outcomes = <<FALSE, FALSE, TRUE>>
  /\ call.chats = 3
  /\ call.slept = <<2, 4>>
  /\ call.out = <<summarize_a2a_responses(DeliveredRun)>>

C17_CreationFailureIsFatalAtOnce ==
  /\ call.clients <= 1
  /\ call.err = CreateFailed =>
       /\ call.pc = "raised"
       /\ call.clients = 1
       /\ call.slept = <<>>
       /\ call.chats = 0 /\ call.outcomes = <<>> /\ call.streamed = 0
       /\ call.out = <<>>
       /\ call.events = <<>>
  /\ call.pc = "raised" /\ call.transport = "SLIM" /\ call.chats = 0 =>
       call.err = CreateFailed
  /\ call.chats > 0 \/ call.events # <<>> => call.err # CreateFailed

\* C17 witness: a valid streaming call has raised the fatal error of a
\* failed client creation, having yielded nothing.
C17_Witness ==
  /\ call.mode = "streaming" /\ call.transport = "SLIM"
  /\ call.farm = "tatooine" /\ call.quantity = 10 /\ call.price = 5
  /\ call.pc = "raised"
  /\ call.err = CreateFailed
  /\ call.clients = 1
  /\ call.events = <<>>

\* ------------------------------------------------------ the rules, restated
\* The rules of the docstring of _summarize_a2a_responses, applied to the
\* responses of ResponsePool by what their texts are.
SenderOf(r) == IF r = Anonymous THEN "Unknown" ELSE r.name
TextOf(r)   == IF r = Anonymous THEN "m2" ELSE r.parts[1]

Survives(r)    == r # Malformed /\ TextOf(r) \notin IdleTexts
IsDelivered(r) == Survives(r) /\ TextOf(r) \in DeliveredTexts
IsPlain(r)     == Survives(r) /\ TextOf(r) \notin DeliveredTexts

PlainReplies     == SelectSeq(responses, IsPlain)
DeliveredReplies == SelectSeq(responses, IsDelivered)

\* the senders of a list of replies, each once, in order of first appearance
RECURSIVE FirstAppearance(_)
FirstAppearance(rs) ==
  IF rs = <<>> THEN <<>>
  ELSE LET front == FirstAppearance(SubSeq(rs, 1, Len(rs) - 1))
           name  == SenderOf(rs[Len(rs)])
       IN IF \E k \in 1..Len(front) : front[k] = name THEN front
          ELSE Append(front, name)

\* the texts of one sender's group of plain replies, in arrival order
GroupTexts(name) ==
  LET group == SelectSeq(PlainReplies, LAMBDA r : SenderOf(r) = name)
  IN [k \in 1..Len(group) |-> TextOf(group[k])]

\* the positions of a group that survive the collapse: the first one and
\* every one whose text differs from the text right before it
KeptPositions(texts) == {k \in 1..Len(texts) : k = 1 \/ texts[k] # texts[k - 1]}

\* a sequence restricted to a set of positions
RECURSIVE Restrict(_, _)
Restrict(texts, keep) ==
  IF texts = <<>> THEN <<>>
  ELSE LET front == Restrict(SubSeq(texts, 1, Len(texts) - 1), keep)
       IN IF Len(texts) \in keep THEN Append(front, texts[Len(texts)]) ELSE front

SenderSegments ==
  LET names == FirstAppearance(PlainReplies)
  IN [k \in 1..Len(names) |->
        names[k] \o ": "
          \o join(", ", Restrict(GroupTexts(names[k]), KeptPositions(GroupTexts(names[k]))))]

DeliveredSegments ==
  [k \in 1..Len(DeliveredReplies) |->
     SenderOf(DeliveredReplies[k]) \o ": " \o TextOf(DeliveredReplies[k])]

StatusLine ==
  "Order status updates: " \o join(" | ", SenderSegments \o DeliveredSegments)
    \o (IF DeliveredReplies # <<>> THEN " (final)" ELSE "")

\* C18 as stated: for every reply list the summary is the status line.
C18_Original == summary # None => summary = StatusLine

\* C18: for every reply list with at least one reply that survives the
\* filter (well-formed, non-empty, not idle), the summary is "Order status
\* updates: " followed by one segment per sender of plain replies in order
\* of first appearance, then one segment "<sender>: <text>" per delivered
\* reply in arrival order, joined by " | " (and closed by " (final)" when a
\* delivered reply exists); the delivered segments come last wherever the
\* delivered replies arrived.
C18_SegmentsInOrder ==
  summary # None /\ (PlainReplies # <<>> \/ DeliveredReplies # <<>>) =>
    summary = StatusLine

\* C18 witness: the replies of Scenario D have been summarized.
C18_Witness ==
  /\ responses = <<Response(TRUE, "Farm", <<"IDLE">>),
                   Response(TRUE, "Farm", <<"HANDOVER_TO_SHIPPER | Farm -> Shipper: m1">>),
                   Response(TRUE, "Farm", <<"HANDOVER_TO_SHIPPER | Farm -> Shipper: m1">>),
                   Response(TRUE, "Shipper", <<"DELIVERED | Shipper -> Supervisor: done">>)>>
  /\ summary = "Order status updates: Farm: HANDOVER_TO_SHIPPER | Farm -> Shipper: m1 | Shipper: DELIVERED | Shipper -> Supervisor: done (final)"

\* C19: the summary is a function of the reply list alone, and the texts
\* kept for a sender by the loop of _summarize_a2a_responses are the texts of the sender's group of plain replies
\* without those that equal the text right before them in the group: a text
\* is dropped only if it repeats its immediate predecessor, so a text that
\* comes back after a different text of the group is kept again.
C19_OnlyConsecutiveDuplicatesCollapse ==
  summary # None =>
    LET Statuses == AbsorbAll(NoStatuses, responses).agent_statuses
    IN
    /\ summary = Compose(AbsorbAll(NoStatuses, responses))
    /\ DOMAIN Statuses = {SenderOf(PlainReplies[k]) : k \in 1..Len(PlainReplies)}
    /\ \A name \in DOMAIN Statuses :
         LET texts == GroupTexts(name)
             kept  == Statuses[name]
         IN /\ kept = Restrict(texts, KeptPositions(texts))
            /\ \A k \in 2..Len(kept) : kept[k] # kept[k - 1]
            /\ \A j \in 2..Len(texts) :
                 texts[j - 1] # texts[j] => j \in KeptPositions(texts)
            /\ Len(texts) - Len(kept)
                 = Cardinality({j \in 2..Len(texts) : texts[j - 1] = texts[j]})

\* C19 witness: one sender has sent m1, m1, m2, m1 and the summary lists
\* m1, m2, m1 for it.
C19_Witness ==
  /\ responses = <<Response(TRUE, "Farm", <<"HANDOVER_TO_SHIPPER | Farm -> Shipper: m1">>),
                   Response(TRUE, "Farm", <<"HANDOVER_TO_SHIPPER | Farm -> Shipper: m1">>),
                   Response(TRUE, "Farm", <<"m2">>),
                   Response(TRUE, "Farm", <<"HANDOVER_TO_SHIPPER | Farm -> Shipper: m1">>)>>
  /\ summary = "Order status updates: Farm: HANDOVER_TO_SHIPPER | Farm -> Shipper: m1, m2, HANDOVER_TO_SHIPPER | Farm -> Shipper: m1"

\* a string ends with " (final)"
EndsFinal(s) == Len(s) >= 8 /\ SubSeq(s, Len(s) - 7, Len(s)) = " (final)"

IsIdleReply(r) == r # Malformed /\ TextOf(r) \in IdleTexts

\* C21: an idle reply leaves the state of the aggregation loop as it found
\* it, wherever it stands in the list: the summary is the summary of the
\* list without its idle replies, a sender all of whose replies are idle is
\* not in the first-appearance order, no idle text is among the delivered
\* segments, and delivered_seen stays unset when the only texts with the
\* word "delivered" are idle ones.
C21_IdleRepliesAreDroppedFirst ==
  summary # None =>
    LET final == AbsorbAll(NoStatuses, responses)
        rest  == SelectSeq(responses, LAMBDA r : ~IsIdleReply(r))
    IN /\ summary = summarize_a2a_responses(rest)
       /\ final = AbsorbAll(NoStatuses, rest)
       /\ \A k \in 1..Len(responses) :
            IsIdleReply(responses[k]) =>
              AbsorbAll(NoStatuses, SubSeq(responses, 1, k))
                = AbsorbAll(NoStatuses, SubSeq(responses, 1, k - 1))
       /\ \A k \in 1..Len(final.agent_first_order) :
            \E j \in 1..Len(responses) :
              /\ ~IsIdleReply(responses[j])
              /\ SenderOf(responses[j]) = final.agent_first_order[k]
       /\ Len(final.delivered_segments) = Len(DeliveredReplies)
       /\ final.delivered_seen <=> DeliveredReplies # <<>>

\* C21 witness: the Farm's idle reply and the Shipper's idle reply with the
\* word "Delivered" came first; the Shipper leads the summary, which is not
\* final.
C21_Witness ==
  /\ responses = <<Response(TRUE, "Farm", <<"IDLE">>),
                   Response(TRUE, "Shipper", <<"Bridle path, Delivered">>),
                   Response(TRUE, "Shipper", <<"m2">>),
                   Response(TRUE, "Farm", <<"m2">>)>>
  /\ summary = "Order status updates: Shipper: m2 | Farm: m2"

\* a streaming call with valid input that has got past the validation
ValidStream ==
  /\ call.mode = "streaming"
  /\ call.transport = "SLIM"
  /\ Validate(call.farm_arg, call.quantity, call.price) = None

\* the first item of a streaming call is the RECEIVED_ORDER event of the
\* Supervisor with the order id of the call
FirstIsInitial ==
  /\ call.events # <<>>
  /\ call.events[1].state = "RECEIVED_ORDER"
  /\ call.events[1].sender = "Supervisor"
  /\ call.events[1].order_id = StreamOrderId
  /\ Contains(call.events[1].message, StreamOrderId)
  /\ call.shown # <<>>
  /\ call.shown[1] = str_event(call.events[1])

\* C22 as stated: for valid inputs the initial RECEIVED_ORDER event has been
\* yielded before any call to the collaborator is made, the creation of the
\* client included.
C22_Original ==
  ValidStream /\ (call.clients > 0 \/ call.chats > 0) => FirstIsInitial

\* C22: for valid inputs the first item yielded by create_order_streaming is
\* the locally built RECEIVED_ORDER event of the Supervisor with the fresh
\* order id; it is yielded once the client has been created and before the
\* group conversation is started, so it is there whatever the conversation
\* delivers; when the creation of the client fails nothing is yielded.
C22_InitialEventBeforeConversation ==
  ValidStream =>
    /\ call.chats > 0 => FirstIsInitial
    /\ call.events # <<>> => FirstIsInitial /\ call.clients = 1
    /\ call.pc = "yielded" =>
         call.chats = 0 /\ Len(call.events) = 1 /\ Len(call.shown) = 1
    /\ call.pc = "create_client" => call.events = <<>> /\ call.shown = <<>>
    /\ call.err = CreateFailed => call.events = <<>> /\ call.chats = 0

\* the initial event is out, and the conversation has not been started
C22_Witness ==
  /\ ValidStream
  /\ call.pc = "yielded"
  /\ call.chats = 0
  /\ call.replies = <<>>
  /\ FirstIsInitial

\* the positions of the DELIVERED events among the events yielded
DeliveredEvents ==
  {i \in 1..Len(call.events) : call.events[i].state = "DELIVERED"}

\* the positions of the confirmation sentences among the messages of the node
Confirmations ==
  {i \in 1..Len(call.shown) :
     /\ SubSeq(call.shown[i], 1, 6) = "Order "
     /\ Contains(call.shown[i], " has been successfully delivered.")}

\* the confirmation for the farms of the model that pass the validation
FarmShown ==
  IF call.farm_arg = "tatooine farm" THEN "Tatooine Farm" ELSE " Tatooine "

StreamingRunEnded ==
  call.mode = "streaming" /\ call.node \in {"done", "abandoned"}

\* C24 as stated: on every exit path of a streaming run (normal completion,
\* an exception of the collaborator, the caller abandoning or cancelling the
\* stream after any number of events) the session of the collaborator has
\* been released: the run is never over while its session is still held.
C24_SessionReleasedOnExit ==
  StreamingRunEnded => ~call.session

\* the wire grammar "<STATE> | <sender> -> <receiver>: <message>": a bar, an
\* arrow after it, and a colon after the arrow
Bars(text) == {i \in 1..Len(text) : Char(text, i) = "|"}
WireBar(text) == Least(Bars(text))
Arrows(text) ==
  {j \in (WireBar(text) + 1)..(Len(text) - 1) : SubSeq(text, j, j + 1) = "->"}
WireArrow(text) == Least(Arrows(text))
Colons(text) ==
  {k \in (WireArrow(text) + 2)..Len(text) : Char(text, k) = ":"}
WireColon(text) == Least(Colons(text))

WellFormed(text) ==
  Bars(text) # {} /\ Arrows(text) # {} /\ Colons(text) # {}

\* the fields of a text of the wire grammar
WireState(text)    == strip(SubSeq(text, 1, WireBar(text) - 1))
WireReceiver(text) == strip(SubSeq(text, WireArrow(text) + 2, WireColon(text) - 1))
WireMessage(text)  == strip(SubSeq(text, WireColon(text) + 1, Len(text)))

\* a streamed reply that says "idle", in any case
IdleReply(r) == \E i \in 1..Len(r.parts) : Contains(lower(r.parts[i]), "idle")

\* the streamed replies that are neither idle nor outside the wire grammar
Remaining ==
  SelectSeq(call.replies, LAMBDA r : ~IdleReply(r) /\ WellFormed(r.parts[1]))

\* C25 as stated: in streaming mode a reply that is idle or outside the wire
\* grammar is dropped without raising and without ending the stream, and
\* parse_order_event returns none for it; the events yielded after the
\* initial one are exactly the decodings of the remaining (non-idle,
\* well-formed) replies, in the order of their delivery.
C25_EventsAreTheRemainingReplies ==
  call.mode = "streaming" /\ call.replies # <<>> =>
    /\ \A i \in 1..Len(call.replies) :
         LET r == call.replies[i]
         IN IdleReply(r) \/ ~WellFormed(r.parts[1]) =>
              parse_order_event(r) = <<>>
    /\ Len(call.events) = 1 + Len(Remaining)
    /\ \A i \in 1..Len(Remaining) :
         /\ i + 1 <= Len(call.events)
         /\ call.events[i + 1].state = WireState(Remaining[i].parts[1])
         /\ call.events[i + 1].receiver = WireReceiver(Remaining[i].parts[1])
         /\ call.events[i + 1].message = WireMessage(Remaining[i].parts[1])
    /\ call.pc = "stream" \/ call.node \in {"done", "formatting", "abandoned"}
    /\ call.pc = "raised" => call.err = Fatal("Internal server error: failed to process order")

\* the sentence shown for each way a call can fail
FailureText ==
  CASE call.err = "ValueError" ->
         "I encountered an issue creating the order: Only SLIM transport is supported for logistic agents."
    [] call.err = "HTTPException 500: Internal server error: failed to create A2A client or message request" ->
         "I encountered an issue creating the order: 500: Internal server error: failed to create A2A client or message request"
    [] call.err = "HTTPException 500: Internal server error: failed to process order after retries" ->
         "I encountered an issue creating the order: 500: Internal server error: failed to process order after retries"
    [] call.err = "HTTPException 500: Internal server error: failed to process order" ->
         "I encountered an issue creating the order: 500: Internal server error: failed to process order"
    [] OTHER -> "?"

\* C26: when the call has failed, the last thing shown is the fixed sentence
\* of the way it failed and everything shown before it is an event yielded
\* earlier; the content of the collaborator's exceptions (kept in the log)
\* occurs nowhere in what is shown nor in the error, so runs that differ only
\* in that content show the same; a transport other than SLIM and the
\* exhaustion of the retries end the call with an error raised to its caller.
C26_FailureTextIsFixed ==
  /\ call.pc = "raised" =>
       /\ call.node = "done"
       /\ FailureText # "?"
       /\ call.shown =
            [i \in 1..Len(call.events) |-> str_event(call.events[i])]
              \o <<FailureText>>
       /\ \A c \in Causes :
            /\ ~Contains(call.err, c)
            /\ \A i \in 1..Len(call.shown) : ~Contains(call.shown[i], c)
  /\ call.logged # <<>> /\ call.pc \in {"returned", "cancelled"} /\ call.formatted # "failed" =>
       \A c \in Causes, i \in 1..Len(call.shown) : ~Contains(call.shown[i], c)
  /\ call.transport = "NATS" => call.pc = "raised" /\ call.err = "ValueError"
  /\ call.outcomes = <<FALSE, FALSE, FALSE>> =>
       /\ call.pc = "raised"
       /\ call.err = "HTTPException 500: Internal server error: failed to process order after retries"

\* the stream has failed after an event, with an exception that names a secret
C26_Witness ==
  /\ call.mode = "streaming"
  /\ call.pc = "raised"
  /\ call.logged = <<"secret token sk-123 rejected">>
  /\ Len(call.events) = 2
  /\ call.shown[3] = "I encountered an issue creating the order: 500: Internal server error: failed to process order"

\* the tokens of the five states of the workflow, in the declared order
Priority ==
  <<"RECEIVED_ORDER", "HANDOVER_TO_SHIPPER", "CUSTOMS_CLEARANCE",
    "PAYMENT_COMPLETE", "DELIVERED">>

Curated ==
  {"RECEIVED_ORDER", "HANDOVER_TO_SHIPPER", "CUSTOMS_CLEARANCE",
   "PAYMENT_COMPLETE", "DELIVERED"}

\* text begins with head / ends with tail
StartsWith(text, head) == SubSeq(text, 1, Len(head)) = head
EndsWith(text, tail) ==
  Len(tail) <= Len(text) /\ SubSeq(text, Len(text) - Len(tail) + 1, Len(text)) = tail

\* the details of the model as the sentence they become
DetailSentence ==
  CASE codec.details = "Payment verified and captured" -> ". Payment verified and captured."
    [] codec.details = " Handle with care!  " -> ". Handle with care."
    [] OTHER -> ""

TokenAfterOrder ==
  CASE codec.message = "DELIVERED | Shipper -> Supervisor: Order 42 delivered successfully" -> "42"
    [] codec.message = "RECEIVED_ORDER | Supervisor -> Tatooine Farm: Create an order 7f-3a with price 5.0" -> "7f-3a"
    [] codec.message = "reORDER\t x9, order y1" -> "x9"
    [] codec.message = "order - HANDOVER_TO_SHIPPER" -> "-"
    [] OTHER -> ""

\* C29: ensure_order_id returns the token of letters, digits and hyphens that
\* follows the first "Order" (in any case) and blanks, whenever the text has
\* one, whatever the fallback; without such a token it returns the fallback
\* when one is given, and only then a newly generated identifier; it never
\* returns the empty string.
C29_TokenThenFallbackThenFresh ==
  codec.id # <<>> =>
    LET id == codec.id[1]
    IN /\ id # ""
       /\ id # None
       /\ TokenAfterOrder # "" => id = TokenAfterOrder
       /\ TokenAfterOrder = "" /\ codec.fallback = "fb-1" => id = "fb-1"
       /\ TokenAfterOrder = "" /\ codec.fallback # "fb-1" => id \in Uuids

\* the token of the text wins over the fallback
C29_Witness ==
  /\ codec.message = "reORDER\t x9, order y1"
  /\ codec.fallback = "fb-1"
  /\ codec.id = <<"x9">>

\* the order ids of a message body: the dashed UUIDs and the runs of 32
\* hexadecimal characters, by position, in the lowercased body
DashedIds(body) == {i \in 1..Len(body) : DashedAt(lower(body), i)}
HexRuns(body) ==
  {i \in 1..(Len(body) - 31) :
     \A k \in 0..31 : Char(lower(body), i + k) \in HexChars}

\* C30 as stated: for every reply whose text is of the wire grammar,
\* parse_order_event returns an event whose state, receiver and message are
\* the fields of the grammar; its order_id is "unknown" exactly when the
\* message body has neither a dashed UUID nor a run of 32 hexadecimal
\* characters, and otherwise the first dashed UUID, or without one the first
\* such run.
C30_WireRepliesAreParsed ==
  \A i \in 1..Len(call.replies) :
    LET text  == call.replies[i].parts[1]
        event == parse_order_event(call.replies[i])
    IN WellFormed(text) =>
         /\ event # <<>>
         /\ event[1].state = WireState(text)
         /\ event[1].receiver = WireReceiver(text)
         /\ event[1].message = WireMessage(text)
         /\ LET body == WireMessage(text)
            IN /\ event[1].order_id = "unknown" <=>
                    DashedIds(body) = {} /\ HexRuns(body) = {}
               /\ DashedIds(body) # {} =>
                    event[1].order_id =
                      SubSeq(lower(body), Least(DashedIds(body)), Least(DashedIds(body)) + 35)
               /\ DashedIds(body) = {} /\ HexRuns(body) # {} =>
                    event[1].order_id =
                      SubSeq(lower(body), Least(HexRuns(body)), Least(HexRuns(body)) + 31)

\* the display name of a sender as the rule has it: "Shipper" for a name with
\* "Shipping" or "Shipper" in it, else the name without a final " agent"
DisplayName(name) ==
  IF Contains(name, "Shipping") \/ Contains(name, "Shipper") THEN "Shipper"
  ELSE IF EndsWith(name, " agent") THEN SubSeq(name, 1, Len(name) - Len(" agent"))
  ELSE name

\* C31 as stated: the sender of a parsed event is "Shipper" for every name
\* that contains "Shipping" or "Shipper"; every other name loses only a
\* trailing " agent", and a name that does not end in " agent" is the sender
\* as it is.
C31_SenderNameIsNormalized ==
  \A i \in 1..Len(call.replies) :
    LET r     == call.replies[i]
        event == parse_order_event(r)
    IN r.name # None /\ event # <<>> => event[1].sender = DisplayName(r.name)

\* the predicate of waiter w's call, before and after the step
Satisfied(w) ==
  IF arg[w].op = "wait_for_events"
  THEN Len(Stream(arg[w].order)) > arg[w].last
  ELSE order_seq > arg[w].last
SatisfiedAfter(w) ==
  IF arg[w].op = "wait_for_events"
  THEN Len(StreamAfter(arg[w].order)) > arg[w].last
  ELSE order_seq' > arg[w].last

Waiters == EventWaiters \cup OrderWaiters
Parked == {w \in Waiters : pc[w] = "parked"}

\* list evs continues the non-empty stream old
Extends(evs, old) ==
  old # <<>> /\ Len(evs) >= Len(old) /\ \A i \in 1..Len(old) : evs[i] = old[i]

\* C32: no wakeup is lost: a step of append or set after which the predicate
\* of a parked waiter holds (the stream longer than its last_index, the
\* creation counter above its last_seq) leaves that waiter notified. A set
\* that continues the non-empty stream notifies exactly when it adds a tail,
\* so a set of the very same list wakes nobody; a set that does not continue
\* the stream notifies whenever its list is non-empty.
C32_NoLostWakeup ==
  [][\A t \in Mutators :
       /\ Completes(t, "append") \/ Completes(t, "set") =>
            \A w \in Parked : SatisfiedAfter(w) => pc'[w] = "notified"
       /\ Completes(t, "set") =>
            LET o   == arg'[t].order
                evs == arg'[t].payload
                old == Stream(o)
            IN /\ Extends(evs, old) /\ Len(evs) > Len(old) =>
                    \A w \in Parked : pc'[w] = "notified"
               /\ Extends(evs, old) /\ Len(evs) = Len(old) =>
                    \A w \in Parked : pc'[w] = "parked"
               /\ ~Extends(evs, old) /\ evs # <<>> =>
                    \A w \in Parked : pc'[w] = "notified"]_vars

\* a set of <<ev1, ev2>> over the stream <<ev1>> has woken the waiter that was
\* parked with last_index 1, and the waiter on new orders with it
C32_Witness ==
  /\ \E t \in Mutators :
       Finished(t, "set") /\ arg[t].payload = <<"ev1", "ev2">>
  /\ pc[Consumer] = "notified"
  /\ arg[Consumer].last = 1
  /\ \E n \in OrderWaiters : pc[n] = "notified" /\ arg[n].last = 1
  /\ order_seq = 1

\* C33 (as claimed): in every reachable state of the store, every order_id
\* whose stream is non-empty has an entry in the creation ledger.
C33_NonEmptyStreamIsInLedger ==
  \A o \in Orders : Stream(o) # <<>> => o \in LedgerIds

\* C34 (as claimed): in every reachable state of the store, each order_id
\* occurs at most once in the creation ledger.
C34_LedgerHasNoRepeatedOrder ==
  \A i, j \in 1..Len(new_orders) :
    new_orders[i][2] = new_orders[j][2] => i = j

\* the message that the reply at position j of the exchange answers: the
\* k-th message of a participant answers the k-th message of the exchange
TriggerIndex(j) ==
  Cardinality({i \in 2..j : chat[i].name = chat[j].name})
Trigger(j) == strip(chat[TriggerIndex(j)].text)

\* the fixed notice with which each participant declines
IdleNotice ==
  [a \in Responders |->
     IF a = "Farm" THEN "Logistic Farm remains IDLE. No further action required."
     ELSE "Accountant remains IDLE. No further action required."]

\* the state on which each participant acts and the state it announces
TriggerState == [a \in Responders |->
                   IF a = "Farm" THEN "RECEIVED_ORDER" ELSE "CUSTOMS_CLEARANCE"]
SuccessorState == [a \in Responders |->
                     IF a = "Farm" THEN "HANDOVER_TO_SHIPPER" ELSE "PAYMENT_COMPLETE"]

\* text is a message of the wire grammar announcing state to Shipper
Announces(text, state) ==
  /\ WellFormed(text)
  /\ WireState(text) = state
  /\ WireReceiver(text) = "Shipper"
  /\ extract_status(text) = state

NonIdleReplies == {j \in 2..Len(chat) : chat[j].text # IdleNotice[chat[j].name]}

ExchangeId(text) ==
  CASE text = InitMessage -> OrderId
    [] text = "CUSTOMS_CLEARANCE | Shipper -> Accountant: Customs cleared for ORDER\t7f-3a; documents forwarded." -> "7f-3a"
    [] text = "CUSTOMS_CLEARANCE after RECEIVED_ORDER, oRdEr X9" -> "X9"
    [] text = "customs_clearance, received_order: order y1" -> "y1"
    [] text = "DELIVERED | Shipper -> Supervisor: Order 42 delivered successfully; closing shipment cycle." -> "42"
    [] text = "HANDOVER_TO_SHIPPER then CUSTOMS_CLEARANCE for Order 42" -> "42"
    [] text = "RECEIVED_ORDER x1, then order y2" -> "x1"
    [] text = "CUSTOMS_CLEARANCE for order DELIVERED" -> "DELIVERED"
    [] text = "PAYMENT_COMPLETE | Accountant -> Shipper: Payment confirmed on order 42; preparing final delivery." -> "42"
    [] OTHER -> ""

\* the transition message text names the order id
Carries(text, id) ==
  \/ Contains(text, ": Order " \o id \o " handed off for international transit.")
  \/ Contains(text, ": Payment confirmed on order " \o id \o "; preparing final delivery.")

\* C37: the order id is preserved across a transition: when the triggering
\* message has a token after "Order" (in any letter case), the transition
\* message of the Farm or the Accountant carries that token, and
\* ensure_order_id of the transition message returns it again whatever
\* identifier it would generate; a newly generated identifier is carried only
\* when the triggering message has no such token.
C37_OrderIdIsPreserved ==
  \A j \in NonIdleReplies :
    LET id    == ExchangeId(Trigger(j))
        reply == chat[j].text
    IN IF id # ""
       THEN /\ Carries(reply, id)
            /\ \A uuid \in Uuids : ensure_order_id(reply, None, uuid) = id
            /\ \A uuid \in Uuids : ~Carries(reply, uuid)
       ELSE \E fresh \in Uuids :
              /\ Carries(reply, fresh)
              /\ \A uuid \in Uuids : ensure_order_id(reply, None, uuid) = fresh

\* the Accountant has carried over the id written after an upper-case ORDER
\* and a tab
C37_Witness ==
  /\ Len(chat) >= 2
  /\ ExchangeId(strip(chat[1].text)) = "7f-3a"
  /\ \E j \in NonIdleReplies :
       /\ chat[j].name = "Accountant"
       /\ Carries(chat[j].text, "7f-3a")
       /\ ensure_order_id(chat[j].text, None, NewUuid) = "7f-3a"

\* the argument x holds none of the five state tokens
NoToken(x) == x = None \/ \A s \in Curated : ~Contains(x, s)

\* C38: building then decoding gives the state back: for each of the five
\* curated states s and for an order id, a sender, a receiver and details
\* that hold no state token themselves, extract_status of
\* build_transition_message(order_id, sender, receiver, s, details) is s.
C38_StateRoundTrip ==
  ( /\ codec.status # <<>>
    /\ codec.to_state \in Curated
    /\ NoToken(codec.order_id) /\ NoToken(codec.sender)
    /\ NoToken(codec.receiver) /\ NoToken(codec.details) )
  => /\ codec.text # <<>>
     /\ codec.text[1] # None
     /\ codec.status[1] = codec.to_state

\* a handover with details has been built and decoded
C38_Witness ==
  /\ codec.status = <<"HANDOVER_TO_SHIPPER">>
  /\ codec.to_state = "HANDOVER_TO_SHIPPER"
  /\ codec.order_id = "7f-3a"
  /\ codec.sender = "Tatooine Farm"
  /\ codec.receiver = "Supervisor"
  /\ codec.details = " Handle with care!  "
  /\ codec.text = <<"HANDOVER_TO_SHIPPER | Tatooine Farm -> Supervisor: Order 7f-3a handed off for international transit. Handle with care.">>

\* C40 (as claimed): an OrderEvent constructed without an explicit timestamp
\* carries the instant of its construction, so two such events constructed at
\* different instants carry different timestamps, ordered as the instants.
C40_TimestampIsConstructionInstant ==
  /\ \A i \in 1..Len(clock.events) :
       ~clock.events[i].explicit => clock.events[i].timestamp = clock.events[i].at
  /\ \A i, j \in 1..Len(clock.events) :
       ( /\ ~clock.events[i].explicit /\ ~clock.events[j].explicit
         /\ clock.events[i].at < clock.events[j].at )
       => clock.events[i].timestamp < clock.events[j].timestamp

\* the stream of a streaming call raises in this step
StreamRaises ==
  call.mode = "streaming" /\ call.pc = "stream" /\ call'.pc = "raised"

\* C39: in streaming mode a failure of the conversation is never retried: the
\* streaming conversation is started at most once per call and exactly once
\* when the stream is consumed, there is no attempt counter and no sleep other
\* than the one-second pause before each streamed event; the step in which
\* the stream raises ends the call with the fatal error, keeps the events
\* already yielded, sleeps no more and starts nothing, and from then on the
\* call only waits to be forgotten.
C39_StreamIsNeverRetried ==
  /\ [](call.mode = "streaming" =>
          /\ call.chats <= 1
          /\ call.pc = "stream" => call.chats = 1
          /\ call.attempt = 0
          /\ call.outcomes = <<>>
          /\ \A i \in 1..Len(call.slept) : call.slept[i] = 1
          /\ call.events # <<>> => Len(call.slept) = Len(call.events) - 1)
  /\ [][StreamRaises =>
          /\ call'.err = "HTTPException 500: Internal server error: failed to process order"
          /\ call'.events = call.events
          /\ call'.slept = call.slept
          /\ call'.chats = 1
          /\ call'.clients = call.clients]_vars
  /\ [][call.mode = "streaming" /\ call.pc = "raised" =>
          \/ call' = NoCall
          \/ /\ call'.pc = "raised"
             /\ call'.chats = call.chats
             /\ call'.slept = call.slept
             /\ call'.events = call.events]_vars

\* the stream has raised after two streamed events: one conversation, two
\* one-second pauses, the three events kept
C39_Witness ==
  /\ call.mode = "streaming"
  /\ call.pc = "raised"
  /\ call.chats = 1
  /\ call.slept = <<1, 1>>
  /\ Len(call.events) = 3
  /\ call.streamed >= 2

====
